---- MODULE Spec2Model ----
(***************************************************************************)
(* Model of the analysis core of seo-check-mcp: text metrics, readability  *)
(* formulas, SEO scoring, the markdown content-instruction engine and the  *)
(* JSON-LD schema / @graph analyzer.                                       *)
(*                                                                         *)
(* Text is a TLA+ string; the operators below read it character by         *)
(* character, as the regular expressions of the source do.  Fractions are  *)
(* exact rationals [n |-> numerator, d |-> denominator] (d > 0); a value   *)
(* the source rounds to one decimal is held as an integer number of        *)
(* tenths, one rounded to two decimals as hundredths.                      *)
(***************************************************************************)
EXTENDS Integers, Sequences, FiniteSets, TLC

VARIABLES pc, content, options, analysis, instructions, summary,
          text, scores, seoInput, seoScore, jsonld, schemaAnalysis,
          graphAnalysis, scoredSchemas, schemaScore, syllableWord, syllableCount,
          driverInstance, driverPromise, isDriverBusy, busyQueue, builds,
          deadSessions, requests, microtasks,
          RESOURCES_CACHE, resourceCalls

vars == <<pc, content, options, analysis, instructions, summary,
          text, scores, seoInput, seoScore, jsonld, schemaAnalysis,
          graphAnalysis, scoredSchemas, schemaScore, syllableWord, syllableCount,
          driverInstance, driverPromise, isDriverBusy, busyQueue, builds,
          deadSessions, requests, microtasks,
          RESOURCES_CACHE, resourceCalls>>

(***************************************************************************)
(* Characters and strings                                                  *)
(***************************************************************************)

\* The value of a variable that holds nothing yet (undefined / not called).
None == "none"

Chars(s) == [i \in 1..Len(s) |-> SubSeq(s, i, i)]

\* Array.prototype.join(''): the characters lo..hi of cs as one string
RECURSIVE JoinRange(_, _, _)
JoinRange(cs, lo, hi) ==
  IF lo > hi THEN ""
  ELSE IF lo = hi THEN cs[lo]
  ELSE JoinRange(cs, lo, (lo + hi) \div 2) \o JoinRange(cs, (lo + hi) \div 2 + 1, hi)

Join(cs) == JoinRange(cs, 1, Len(cs))

LowerLetters ==
  {"a","b","c","d","e","f","g","h","i","j","k","l","m",
   "n","o","p","q","r","s","t","u","v","w","x","y","z"}

UpperToLower ==
  [A |-> "a", B |-> "b", C |-> "c", D |-> "d", E |-> "e", F |-> "f",
   G |-> "g", H |-> "h", I |-> "i", J |-> "j", K |-> "k", L |-> "l",
   M |-> "m", N |-> "n", O |-> "o", P |-> "p", Q |-> "q", R |-> "r",
   S |-> "s", T |-> "t", U |-> "u", V |-> "v", W |-> "w", X |-> "x",
   Y |-> "y", Z |-> "z"]

Digits == {"0","1","2","3","4","5","6","7","8","9"}

\* \w of a JavaScript regular expression
WordChars == LowerLetters \cup DOMAIN UpperToLower \cup Digits \cup {"_"}

\* \s of a JavaScript regular expression (the characters the inputs use)
WhiteSpace == {" ", "\n", "\t", "\r"}

ToLowerChar(c) == IF c \in DOMAIN UpperToLower THEN UpperToLower[c] ELSE c

\* String.prototype.toLowerCase, on a character sequence
toLowerCase(cs) == [i \in 1..Len(cs) |-> ToLowerChar(cs[i])]

\* String.prototype.trim, on a character sequence
trim(cs) ==
  LET Between(keep) ==
        IF keep = {} THEN <<>>
        ELSE SubSeq(cs, CHOOSE i \in keep : \A j \in keep : i <= j,
                        CHOOSE i \in keep : \A j \in keep : j <= i)
  IN Between({i \in 1..Len(cs) : cs[i] \notin WhiteSpace})

\* String.prototype.startsWith / includes, on character sequences
startsWith(cs, pre) ==
  Len(pre) <= Len(cs) /\ SubSeq(cs, 1, Len(pre)) = pre

includes(cs, sub) ==
  \E i \in 1..(Len(cs) - Len(sub) + 1) : SubSeq(cs, i, i + Len(sub) - 1) = sub

\* Index of the first character of cs from position i on that is not in
\* set (FirstOutside) or is in it (FirstInside); Len(cs) + 1 when there
\* is none
FirstOutside(cs, i, set) ==
  LET Least(stop) ==
        IF stop = {} THEN Len(cs) + 1
        ELSE CHOOSE j \in stop : \A k \in stop : j <= k
  IN Least({j \in i..Len(cs) : cs[j] \notin set})

FirstInside(cs, i, set) ==
  LET Least(stop) ==
        IF stop = {} THEN Len(cs) + 1
        ELSE CHOOSE j \in stop : \A k \in stop : j <= k
  IN Least({j \in i..Len(cs) : cs[j] \in set})

\* Array.prototype.filter: the elements of s[lo..hi] whose index is in keepIdx
RECURSIVE FilterRange(_, _, _, _)
FilterRange(s, keepIdx, lo, hi) ==
  IF lo > hi THEN <<>>
  ELSE IF lo = hi THEN IF lo \in keepIdx THEN <<s[lo]>> ELSE <<>>
  ELSE FilterRange(s, keepIdx, lo, (lo + hi) \div 2)
       \o FilterRange(s, keepIdx, (lo + hi) \div 2 + 1, hi)

SelectSeqRec(s, keepIdx) == FilterRange(s, keepIdx, 1, Len(s))

\* s.split(/[seps]+/): the pieces between maximal runs of separator
\* characters.  A piece starts at position 1 and behind every run; a
\* leading or trailing run yields an empty piece, as in JavaScript, and
\* the empty string splits to one empty piece.
SplitRuns(cs, seps) ==
  LET Pieces(starts) ==
        [k \in 1..Len(starts) |->
           SubSeq(cs, starts[k], FirstInside(cs, starts[k], seps) - 1)]
  IN Pieces(SelectSeqRec([i \in 1..(Len(cs) + 1) |-> i],
                         {1} \cup {i \in 2..(Len(cs) + 1) :
                                    /\ cs[i - 1] \in seps
                                    /\ (i = Len(cs) + 1 \/ cs[i] \notin seps)}))

\* Math.round of the rational n/d (d > 0): the nearest integer, halves up
Round(n, d) == (2 * n + d) \div (2 * d)

Max(a, b) == IF a >= b THEN a ELSE b
Min(a, b) == IF a <= b THEN a ELSE b

\* Array.prototype.reduce((sum, x) => sum + x, 0)
RECURSIVE SumRange(_, _, _)
SumRange(s, lo, hi) ==
  IF lo > hi THEN 0
  ELSE IF lo = hi THEN s[lo]
  ELSE SumRange(s, lo, (lo + hi) \div 2) + SumRange(s, (lo + hi) \div 2 + 1, hi)

SumSeq(s) == SumRange(s, 1, Len(s))

(***************************************************************************)
(* text.ts: words, sentences, syllables                                    *)
(***************************************************************************)

Vowels == {"a", "e", "i", "o", "u", "y"}

\* word.replace(/(?:[^laeiouy]es|ed|[^laeiouy]e)$/, ''): the leftmost
\* match wins; the character before "es" / "e" is removed with it.
StripSuffix(w) ==
  LET n == Len(w)
      keepOut == {"l", "a", "e", "i", "o", "u", "y"}
  IN IF n >= 3 /\ w[n - 2] \notin keepOut /\ w[n - 1] = "e" /\ w[n] = "s"
       THEN SubSeq(w, 1, n - 3)
     ELSE IF n >= 2 /\ w[n - 1] = "e" /\ w[n] = "d"
       THEN SubSeq(w, 1, n - 2)
     ELSE IF n >= 2 /\ w[n - 1] \notin keepOut /\ w[n] = "e"
       THEN SubSeq(w, 1, n - 2)
     ELSE w

\* word.replace(/^y/, '')
StripLeadingY(w) == IF Len(w) >= 1 /\ w[1] = "y" THEN Tail(w) ELSE w

\* (word.match(/[aeiouy]{1,2}/g) || []).length: each match takes two
\* vowels when two are adjacent, else one.
RECURSIVE VowelChunks(_, _)
VowelChunks(w, i) ==
  IF i > Len(w) THEN 0
  ELSE IF w[i] \in Vowels
       THEN IF i + 1 <= Len(w) /\ w[i + 1] \in Vowels
            THEN 1 + VowelChunks(w, i + 2)
            ELSE 1 + VowelChunks(w, i + 1)
       ELSE VowelChunks(w, i + 1)

countSyllables(word) ==
  LET Matches(m) == IF m > 0 THEN m ELSE 1
      Count(w) ==
        IF Len(w) <= 3 THEN 1
        ELSE Matches(VowelChunks(StripLeadingY(StripSuffix(w)), 1))
  IN Count(trim(toLowerCase(word)))

\* text.toLowerCase().replace(/[^\w\s]/g, ' ').split(/\s+/).filter(nonempty)
extractWords(cs) ==
  LET Replaced(low) ==
        [i \in 1..Len(low) |->
           IF low[i] \in WordChars \cup WhiteSpace THEN low[i] ELSE " "]
      NonEmpty(parts) ==
        SelectSeqRec(parts, {i \in 1..Len(parts) : Len(parts[i]) > 0})
  IN NonEmpty(SplitRuns(Replaced(toLowerCase(cs)), WhiteSpace))

SentenceEnd == {".", "!", "?"}

\* text.split(/[.!?]+/).filter(s => s.trim().length > 0), floor of 1
countSentences(cs) ==
  LET Sentences(parts) == {i \in 1..Len(parts) : Len(trim(parts[i])) > 0}
  IN Max(Cardinality(Sentences(SplitRuns(cs, SentenceEnd))), 1)

countTotalSyllables(cs) ==
  LET Total(words) == SumSeq([i \in 1..Len(words) |-> countSyllables(words[i])])
  IN Total(extractWords(cs))

countComplexWords(cs) ==
  LET Complex(words) == {i \in 1..Len(words) : countSyllables(words[i]) >= 3}
  IN Cardinality(Complex(extractWords(cs)))

\* (keywordCount / words.length) * 100 as a rational; 0 without words
calculateKeywordDensity(cs, keyword) ==
  LET Density(words, keywordLower) ==
        IF Len(words) = 0 THEN [n |-> 0, d |-> 1]
        ELSE [n |-> 100 * Cardinality({i \in 1..Len(words) : words[i] = keywordLower}),
              d |-> Len(words)]
  IN Density(extractWords(cs), toLowerCase(keyword))

(***************************************************************************)
(* scoring.ts: readability formulas                                        *)
(***************************************************************************)

Zero == [n |-> 0, d |-> 1]

\* Math.sqrt on integers: the largest r with r * r <= n
RECURSIVE ISqrtRec(_, _, _)
ISqrtRec(n, lo, hi) ==
  IF lo >= hi THEN lo
  ELSE LET mid == (lo + hi + 1) \div 2
       IN IF mid * mid <= n THEN ISqrtRec(n, mid, hi) ELSE ISqrtRec(n, lo, mid - 1)

ISqrt(n) == ISqrtRec(n, 0, Min(n, 46340))

\* 206.835 - 1.015 * asl - 84.6 * asw
fleschReadingEase(cs) ==
  LET Score(words, sentences, syllables) ==
        IF words = 0 \/ sentences = 0 THEN Zero
        ELSE [n |-> 206835 * sentences * words - 1015 * words * words
                    - 84600 * syllables * sentences,
              d |-> 1000 * sentences * words]
  IN Score(Len(extractWords(cs)), countSentences(cs), countTotalSyllables(cs))

\* 0.39 * asl + 11.8 * asw - 15.59
fleschKincaidGrade(cs) ==
  LET Score(words, sentences, syllables) ==
        IF words = 0 \/ sentences = 0 THEN Zero
        ELSE [n |-> 39 * words * words + 1180 * syllables * sentences
                    - 1559 * sentences * words,
              d |-> 100 * sentences * words]
  IN Score(Len(extractWords(cs)), countSentences(cs), countTotalSyllables(cs))

\* 0.4 * (asl + (complexWords / words) * 100)
gunningFog(cs) ==
  LET Score(words, sentences, complexWords) ==
        IF words = 0 \/ sentences = 0 THEN Zero
        ELSE [n |-> 4 * (words * words + 100 * complexWords * sentences),
              d |-> 10 * sentences * words]
  IN Score(Len(extractWords(cs)), countSentences(cs), countComplexWords(cs))

\* 1.0430 * sqrt(complexWords * (30 / sentences)) + 3.1291 below 30
\* sentences, 1.0430 * sqrt(complexWords) + 3.1291 from 30 on; the root is
\* taken to three decimals and the result held in 1/10000.  The source has
\* no guard on the word count here.
smogIndex(cs) ==
  LET Root(sentences, complexWords) ==
        IF sentences < 30
        THEN ISqrt((complexWords * 30 * 1000000) \div sentences)
        ELSE ISqrt(complexWords * 1000000)
  IN [n |-> (10430 * Root(countSentences(cs), countComplexWords(cs))) \div 1000 + 31291,
      d |-> 10000]

\* 4.71 * (characters / words) + 0.5 * (words / sentences) - 21.43
automatedReadabilityIndex(cs) ==
  LET Score(words, sentences, characters) ==
        IF words = 0 \/ sentences = 0 THEN Zero
        ELSE [n |-> 471 * characters * sentences + 50 * words * words
                    - 2143 * sentences * words,
              d |-> 100 * sentences * words]
      Of(ws) == Score(Len(ws), countSentences(cs),
                      SumSeq([i \in 1..Len(ws) |-> Len(ws[i])]))
  IN Of(extractWords(cs))

interpretFleschScore(score) ==
  IF score.n >= 90 * score.d THEN "Very Easy (5th grade)"
  ELSE IF score.n >= 80 * score.d THEN "Easy (6th grade)"
  ELSE IF score.n >= 70 * score.d THEN "Fairly Easy (7th grade)"
  ELSE IF score.n >= 60 * score.d THEN "Standard (8th-9th grade) - Ideal for web"
  ELSE IF score.n >= 50 * score.d THEN "Fairly Difficult (10th-12th grade)"
  ELSE IF score.n >= 30 * score.d THEN "Difficult (College level)"
  ELSE "Very Difficult (Professional level)"

\* Math.round(x * 10) / 10, held in tenths
Tenths(q) == Round(10 * q.n, q.d)

\* The five formulas as the source returns them (raw), and rounded
calculateReadabilityScores(cs) ==
  LET Rounded(fre) ==
     [fleschReadingEase |-> Tenths(fre),
      fleschKincaidGrade |-> Tenths(fleschKincaidGrade(cs)),
      gunningFog |-> Tenths(gunningFog(cs)),
      smogIndex |-> Tenths(smogIndex(cs)),
      automatedReadabilityIndex |-> Tenths(automatedReadabilityIndex(cs)),
      interpretation |-> interpretFleschScore(fre)]
  IN Rounded(fleschReadingEase(cs))

(***************************************************************************)
(* scoring.ts: SEO scores.  A null or undefined string argument is the     *)
(* empty string here: the source tests both with !title / !description     *)
(* and with a truthiness test of targetKeyword.                            *)
(***************************************************************************)

\* words.some(word => text.toLowerCase().includes(word))
HasAnyWord(cs, words) == \E w \in words : includes(toLowerCase(cs), Chars(w))

actionWords == {"how", "guide", "best", "top", "ultimate", "complete", "free", "new"}

ctaWords ==
  {"learn", "discover", "find", "get", "try", "start", "read", "click", "see", "explore"}

\* text.toLowerCase().includes(targetKeyword.toLowerCase()), false without keyword
\* A keyword test that finds no keyword in any text
NeverHasKeyword(cs, targetKeyword) == FALSE

HasKeyword(cs, targetKeyword) ==
  Len(targetKeyword) > 0 /\ includes(toLowerCase(cs), toLowerCase(targetKeyword))

scoreTitleTag(title, targetKeyword) ==
  LET length == Len(title)
      lengthScore ==
        IF length >= 50 /\ length <= 60 THEN 40
        ELSE IF length >= 40 /\ length <= 70 THEN 30
        ELSE IF length >= 30 /\ length <= 80 THEN 20
        ELSE IF length > 0 THEN 10 ELSE 0
      keywordScore ==
        IF HasKeyword(title, targetKeyword)
        THEN 30 + (IF startsWith(toLowerCase(title), toLowerCase(targetKeyword))
                   THEN 10 ELSE 0)
        ELSE 15
      notShort == IF length >= 30 THEN 10 ELSE 0
      action == IF HasAnyWord(title, actionWords) THEN 10 ELSE 0
  IN IF length = 0 THEN 0
     ELSE Min(100, lengthScore + keywordScore + notShort + action)

scoreMetaDescription(description, targetKeyword) ==
  LET length == Len(description)
      lengthScore ==
        IF length >= 150 /\ length <= 160 THEN 40
        ELSE IF length >= 120 /\ length <= 180 THEN 30
        ELSE IF length >= 80 /\ length <= 200 THEN 20
        ELSE IF length > 0 THEN 10 ELSE 0
      keywordScore == IF HasKeyword(description, targetKeyword) THEN 25 ELSE 10
      callToAction == IF HasAnyWord(description, ctaWords) THEN 15 ELSE 0
      endsProperly == IF description[length] \in SentenceEnd THEN 10 ELSE 0
      activeVoice ==
        IF ~includes(toLowerCase(description), Chars("is a"))
           /\ ~includes(toLowerCase(description), Chars("are a"))
        THEN 10 ELSE 0
  IN IF length = 0 THEN 0
     ELSE Min(100, lengthScore + keywordScore + callToAction + endsProperly
                   + activeVoice)

optimalRanges ==
  [blog |-> [min |-> 1000, max |-> 2500, ideal |-> 1500],
   product |-> [min |-> 300, max |-> 1000, ideal |-> 500],
   landing |-> [min |-> 500, max |-> 1500, ideal |-> 800]]

scoreContentLength(wordCount, pageType) ==
  LET InRange(range, maxDistance) ==
        70 + Round(30 * (maxDistance
                         - (IF wordCount >= range.ideal THEN wordCount - range.ideal
                            ELSE range.ideal - wordCount)),
                   maxDistance)
      Score(range) ==
        IF wordCount >= range.min /\ wordCount <= range.max
        THEN InRange(range, Max(range.ideal - range.min, range.max - range.ideal))
        ELSE IF wordCount < range.min THEN Round(50 * wordCount, range.min)
        ELSE IF 2 * wordCount <= 3 * range.max THEN 60
        ELSE IF wordCount <= 2 * range.max THEN 50
        ELSE 40
  IN Score(optimalRanges[pageType])

\* The weighted sums are taken exactly; the source takes them in floating
\* point before Math.round.
calculateSEOScore(title, description, wordCount, h1Count, imageCount, imagesWithAlt, internalLinks, externalLinks, targetKeyword) ==
  LET Composite(details, onPageScore, contentScore, technicalScore) ==
        [overall |-> Round(40 * onPageScore + 35 * contentScore + 25 * technicalScore,
                           100),
         content |-> contentScore, technical |-> technicalScore,
         onPage |-> onPageScore, details |-> details]
      Categories(d) ==
        Composite(d, Round(d.titleScore + d.descriptionScore + d.headingsScore, 3),
                  Round(d.contentLengthScore + d.keywordScore, 2),
                  Round(d.imagesScore + d.linksScore, 2))
  IN Categories(
       [titleScore |-> scoreTitleTag(title, targetKeyword),
        descriptionScore |-> scoreMetaDescription(description, targetKeyword),
        headingsScore |-> IF h1Count = 1 THEN 100 ELSE IF h1Count = 0 THEN 20 ELSE 50,
        imagesScore |-> IF imageCount = 0 THEN 50
                        ELSE Round(100 * imagesWithAlt, imageCount),
        linksScore |-> 50 + (IF internalLinks >= 3 THEN 25 ELSE 0)
                          + (IF externalLinks >= 1 THEN 25 ELSE 0),
        contentLengthScore |-> scoreContentLength(wordCount, "blog"),
        keywordScore |->
          50 + (IF HasKeyword(title, targetKeyword) THEN 25 ELSE 0)
             + (IF HasKeyword(description, targetKeyword) THEN 25 ELSE 0)])

(***************************************************************************)
(* content-analyzer.ts: markdown parsing                                   *)
(***************************************************************************)

\* content.split('\n'): one piece per newline, empty pieces kept
RECURSIVE SplitLines(_, _)
SplitLines(cs, i) ==
  LET Line(e) ==
        IF e > Len(cs) THEN <<Join(SubSeq(cs, i, Len(cs)))>>
        ELSE <<Join(SubSeq(cs, i, e - 1))>> \o SplitLines(cs, e + 1)
  IN Line(FirstInside(cs, i, {"\n"}))

parseMarkdownLines(doc) == SplitLines(Chars(doc), 1)

Fence == <<"-", "-", "-">>

Quotes == {"\"", "'"}

\* line.match(/^(\w+):\s*(.*)$/): the key, or <<>> when the line does not match
FrontmatterKey(cs) ==
  LET KeyTo(k) ==
        IF k > 1 /\ k <= Len(cs) /\ cs[k] = ":" THEN SubSeq(cs, 1, k - 1) ELSE <<>>
  IN KeyTo(FirstOutside(cs, 1, WordChars))

\* the value group of the same match, after .replace(/^["']|["']$/g, '')
FrontmatterValue(cs) ==
  LET NoTrail(v) ==
        IF Len(v) > 0 /\ v[Len(v)] \in Quotes THEN SubSeq(v, 1, Len(v) - 1) ELSE v
      NoLead(raw) ==
        IF Len(raw) > 0 /\ raw[1] \in Quotes THEN Tail(raw) ELSE raw
      ValueFrom(k) == SubSeq(cs, FirstOutside(cs, k + 1, WhiteSpace), Len(cs))
  IN NoTrail(NoLead(ValueFrom(Len(FrontmatterKey(cs)) + 1)))

\* The loop of extractFrontmatter from line index i (0-based i is i - 1
\* here): fm maps each key seen to its last value.
RECURSIVE FrontmatterLoop(_, _, _)
FrontmatterLoop(lines, i, fm) ==
  IF i > Len(lines) THEN [frontmatter |-> fm, contentStartLine |-> 0]
  ELSE LET Set(key, value) ==
             [k \in DOMAIN fm \cup {key} |-> IF k = key THEN value ELSE fm[k]]
           Line(cs, key) ==
             IF trim(cs) = Fence THEN [frontmatter |-> fm, contentStartLine |-> i]
             ELSE IF key = <<>> THEN FrontmatterLoop(lines, i + 1, fm)
             ELSE FrontmatterLoop(lines, i + 1,
                                  Set(Join(key), Join(FrontmatterValue(cs))))
       IN Line(Chars(lines[i]), FrontmatterKey(Chars(lines[i])))

EmptyMap == [k \in {} |-> ""]

extractFrontmatter(lines) ==
  IF Len(lines) >= 1 /\ trim(Chars(lines[1])) = Fence
  THEN FrontmatterLoop(lines, 2, EmptyMap)
  ELSE [frontmatter |-> EmptyMap, contentStartLine |-> 0]

\* Length of the marker a line-anchored pattern matches at position i,
\* before its \s+ : #{1,6}, >, [-*+] or \d+\. ; 0 when there is none.
MarkerLen(cs, i, kind) ==
  LET n == Len(cs)
      Run(set) == FirstOutside(cs, i, set) - i
      UpTo6(r) == IF r <= 6 THEN r ELSE 0
      Dotted(r) == IF r > 0 /\ i + r <= n /\ cs[i + r] = "." THEN r + 1 ELSE 0
      BeforeSpace(m) ==
        IF m > 0 /\ i + m <= n /\ cs[i + m] \in WhiteSpace THEN m ELSE 0
  IN BeforeSpace(IF kind = "heading" THEN UpTo6(Run({"#"}))
                 ELSE IF kind = "quote" THEN IF cs[i] = ">" THEN 1 ELSE 0
                 ELSE IF kind = "list" THEN IF cs[i] \in {"-", "*", "+"} THEN 1 ELSE 0
                 ELSE Dotted(Run(Digits)))

\* text.replace(/^<marker>\s+/gm, ''), from the line that starts at i: the
\* marker and the whitespace run after it (newlines included) go; where
\* the run ends behind a newline the pattern is tried again at once
RECURSIVE StripMarkers(_, _, _)
StripMarkers(cs, i, kind) ==
  IF i > Len(cs) THEN <<>>
  ELSE LET RestOfLine(from, e) ==
             SubSeq(cs, from, Min(e, Len(cs))) \o StripMarkers(cs, e + 1, kind)
           Copy(from) ==
             IF from > Len(cs) THEN <<>>
             ELSE IF from > i /\ cs[from - 1] = "\n" THEN StripMarkers(cs, from, kind)
             ELSE RestOfLine(from, FirstInside(cs, from, {"\n"}))
           Skip(m) ==
             Copy(IF m = 0 THEN i ELSE FirstOutside(cs, i + m, WhiteSpace))
       IN Skip(MarkerLen(cs, i, kind))

\* text.replace(/\n{3,}/g, '\n\n')
CollapseNewlines(cs) ==
  SelectSeqRec(cs, {i \in 1..Len(cs) :
    ~(cs[i] = "\n" /\ i >= 3 /\ cs[i - 1] = "\n" /\ cs[i - 2] = "\n")})

\* Characters of inline markup (images, links, emphasis; code uses the
\* backtick as well).  The documents analysed here hold none of them, so
\* the replacements of stripMarkdown that act on them leave the text as
\* it is.
InlineMarkup == {"[", "]", "*", "_"}

stripMarkdown(cs) ==
  LET Headers(t) == StripMarkers(t, 1, "heading")
      Blockquotes(t) == StripMarkers(t, 1, "quote")
      Lists(t) == StripMarkers(t, 1, "list")
      OrderedLists(t) == StripMarkers(t, 1, "olist")
  IN trim(CollapseNewlines(OrderedLists(Lists(Blockquotes(Headers(cs))))))

\* line.match(/^(#{1,6})\s+(.+)$/): the heading's level, 0 when no match
HeadingLevel(cs) ==
  LET Level(m) == IF m > 0 /\ Len(cs) >= m + 2 THEN m ELSE 0
  IN Level(IF Len(cs) > 0 THEN MarkerLen(cs, 1, "heading") ELSE 0)

\* the (.+) group: what follows the whitespace run after the marker, or
\* the run's last character when nothing follows it (\s+ gives it back)
HeadingText(cs) ==
  LET From(m) ==
        IF m = 0 THEN <<>>
        ELSE SubSeq(cs, Min(FirstOutside(cs, m + 1, WhiteSpace), Len(cs)), Len(cs))
  IN From(HeadingLevel(cs))

extractMarkdownHeadings(lines) ==
  LET Heading(i, cs) ==
        [level |-> HeadingLevel(cs), text |-> Join(HeadingText(cs)), lineNumber |-> i]
  IN SelectSeqRec([i \in 1..Len(lines) |-> Heading(i, Chars(lines[i]))],
                  {i \in 1..Len(lines) : HeadingLevel(Chars(lines[i])) > 0})

\* line.split(/(?<=[.!?])\s+/), from the piece that starts at i: cut at
\* each whitespace run that follows a sentence terminator
RECURSIVE SplitSentences(_, _)
SplitSentences(cs, i) ==
  LET Piece(e) ==
        IF e > Len(cs) THEN <<SubSeq(cs, i, Len(cs))>>
        ELSE <<SubSeq(cs, i, e - 1)>>
             \o SplitSentences(cs, FirstOutside(cs, e, WhiteSpace))
      Least(cuts) ==
        IF cuts = {} THEN Len(cs) + 1
        ELSE CHOOSE j \in cuts : \A k \in cuts : j <= k
  IN Piece(Least({j \in i..Len(cs) :
             cs[j] \in WhiteSpace /\ j > 1 /\ cs[j - 1] \in SentenceEnd}))

\* The backtick cannot be written in a string of this module; no input
\* text holds one, and Backtick stands for it where the source tests it.
Backtick == "<backtick>"

CodeFence == <<Backtick, Backtick, Backtick>>

\* The lines the sentence and paragraph scans pass over
SkippedBySentences(cs) ==
  \/ Len(cs) = 0
  \/ startsWith(cs, <<"#">>)
  \/ startsWith(cs, CodeFence)
  \/ startsWith(cs, <<"|">>)

RECURSIVE ConcatAll(_)
ConcatAll(ss) == IF ss = <<>> THEN <<>> ELSE Head(ss) \o ConcatAll(Tail(ss))

findLongSentences(lines, maxLength) ==
  LET Long(recs) ==
        SelectSeqRec(recs, {k \in 1..Len(recs) : recs[k].wordCount > maxLength})
      Measured(i, sentences) ==
        [k \in 1..Len(sentences) |->
           [lineNumber |-> i,
            sentence |-> Join(trim(sentences[k])),
            wordCount |-> Len(extractWords(sentences[k]))]]
      PerLine(i, cs) ==
        Long(Measured(i, IF SkippedBySentences(cs) THEN <<>>
                            ELSE SplitSentences(cs, 1)))
  IN ConcatAll([i \in 1..Len(lines) |-> PerLine(i, Chars(lines[i]))])

\* A line that joins the current paragraph
InParagraph(cs) ==
  /\ ~startsWith(cs, <<"#">>)
  /\ ~startsWith(cs, CodeFence)
  /\ ~startsWith(cs, <<"-">>)
  /\ ~startsWith(cs, <<"|">>)

\* The loop of findLongParagraphs from line i; paragraphStart is the
\* 0-based index of the source (-1: no paragraph open).
RECURSIVE LongParagraphLoop(_, _, _, _, _)
LongParagraphLoop(lines, i, paragraphStart, paragraphText, maxSentences) ==
  LET Counted(endLine, sentenceCount) ==
        IF paragraphStart >= 0 /\ Len(trim(paragraphText)) > 0
           /\ sentenceCount > maxSentences
        THEN <<[startLine |-> paragraphStart + 1, endLine |-> endLine,
                sentenceCount |-> sentenceCount]>>
        ELSE <<>>
      Flush(endLine) == Counted(endLine, countSentences(paragraphText))
      Line(cs) ==
        IF trim(cs) = <<>>
        THEN Flush(i - 1) \o LongParagraphLoop(lines, i + 1, -1, <<>>, maxSentences)
        ELSE IF InParagraph(cs)
        THEN LongParagraphLoop(lines, i + 1,
               IF paragraphStart < 0 THEN i - 1 ELSE paragraphStart,
               paragraphText \o <<" ">> \o cs, maxSentences)
        ELSE LongParagraphLoop(lines, i + 1, paragraphStart,
                               paragraphText, maxSentences)
  IN IF i > Len(lines) THEN Flush(Len(lines)) ELSE Line(Chars(lines[i]))

findLongParagraphs(lines, maxSentences) ==
  LongParagraphLoop(lines, 1, -1, <<>>, maxSentences)

Auxiliaries == {"is", "are", "was", "were", "be", "been", "being"}

Participles ==
  {"written", "done", "made", "taken", "given", "shown", "known", "found",
   "thought", "seen"}

\* End of the maximal \w run that starts at i (i - 1 when there is none)
WordEnd(cs, i) == FirstOutside(cs, i, WordChars) - 1

\* /\b(is|are|...)\s+(\w+ed|written|...)\b/gi at position i: the index of
\* the match's last character, 0 when it does not match there
PassiveMatchEnd(cs, i) ==
  LET Participle(e2, w) ==
        IF \/ Len(w) >= 3 /\ SubSeq(w, Len(w) - 1, Len(w)) = <<"e", "d">>
           \/ Join(w) \in Participles
        THEN e2 ELSE 0
      Second(j2, e2) == Participle(e2, toLowerCase(SubSeq(cs, j2, e2)))
      AfterSpace(e1, j2) ==
        IF Join(toLowerCase(SubSeq(cs, i, e1))) \notin Auxiliaries
           \/ j2 = e1 + 1 \/ j2 > Len(cs)
        THEN 0 ELSE Second(j2, WordEnd(cs, j2))
      First(e1) == AfterSpace(e1, FirstOutside(cs, e1 + 1, WhiteSpace))
  IN IF ~(cs[i] \in WordChars /\ (i = 1 \/ cs[i - 1] \notin WordChars)) THEN 0
     ELSE First(WordEnd(cs, i))

\* line.match(pattern): the matches left to right from position i, none
\* overlapping
RECURSIVE PassiveMatches(_, _)
PassiveMatches(cs, i) ==
  LET Match(j, e) == <<Join(SubSeq(cs, j, e))>> \o PassiveMatches(cs, e + 1)
      Found(j) == Match(j, PassiveMatchEnd(cs, j))
      Leftmost(starts) ==
        IF starts = {} THEN <<>>
        ELSE Found(CHOOSE j \in starts : \A k \in starts : j <= k)
  IN Leftmost({j \in i..Len(cs) : PassiveMatchEnd(cs, j) > 0})

detectPassiveVoice(lines) ==
  LET Instances(i, ms) == [k \in 1..Len(ms) |-> [lineNumber |-> i, text |-> ms[k]]]
  IN ConcatAll([i \in 1..Len(lines) |-> Instances(i, PassiveMatches(Chars(lines[i]), 1))])

(***************************************************************************)
(* content-analyzer.ts: analysis                                           *)
(***************************************************************************)

analyzeReadability(doc, lines) ==
  LET Metrics(plainText, words, sentences, complexWords, passiveInstances) ==
        [fleschKincaid |-> Tenths(fleschKincaidGrade(plainText)),
         avgSentenceLength |-> Round(10 * Len(words), Max(sentences, 1)),
         avgWordLength |->
           IF Len(words) > 0
           THEN Round(10 * SumSeq([i \in 1..Len(words) |-> Len(words[i])]), Len(words))
           ELSE 0,
         complexWordPercentage |->
           IF Len(words) > 0 THEN Round(1000 * complexWords, Len(words)) ELSE 0,
         passiveVoiceCount |-> Len(passiveInstances)]
      Of(plainText) ==
        Metrics(plainText, extractWords(plainText), countSentences(plainText),
                countComplexWords(plainText), detectPassiveVoice(lines))
  IN Of(stripMarkdown(Chars(doc)))

\* lines.find(l => l && !l.startsWith('#') && !l.startsWith('---')
\*                 && l.trim() !== ''): the line's index, 0 when none
FirstParagraphIndex(lines) ==
  LET Found(cs) ==
        /\ Len(cs) > 0
        /\ ~startsWith(cs, <<"#">>)
        /\ ~startsWith(cs, Fence)
        /\ trim(cs) # <<>>
      First(ok) == IF ok = {} THEN 0 ELSE CHOOSE i \in ok : \A j \in ok : i <= j
  IN First({i \in 1..Len(lines) : Found(Chars(lines[i]))})

\* options.targetKeyword is "" when the caller gives none: the source
\* treats undefined and the empty string alike.
analyzeSEO(doc, lines, opts) ==
  LET Metrics(words, headings, fm, keyword, density, first) ==
        [wordCount |-> Len(words),
         keywordCount |->
           IF Len(keyword) > 0
           THEN Cardinality({i \in 1..Len(words) : words[i] = keyword})
           ELSE 0,
         keywordDensity |-> Round(100 * density.n, density.d),
         keywordInFirstParagraph |->
           IF Len(keyword) > 0 /\ first > 0
           THEN includes(toLowerCase(Chars(lines[first])), keyword)
           ELSE FALSE,
         keywordInHeadings |->
           IF Len(keyword) > 0
           THEN Cardinality({i \in 1..Len(headings) :
                  includes(toLowerCase(Chars(headings[i].text)), keyword)})
           ELSE 0,
         hasMetaDescription |->
           "description" \in DOMAIN fm /\ fm["description"] # ""]
      Of(plainText, keyword) ==
        Metrics(extractWords(plainText), extractMarkdownHeadings(lines),
                extractFrontmatter(lines).frontmatter, keyword,
                IF Len(keyword) > 0 THEN calculateKeywordDensity(plainText, keyword)
                ELSE Zero,
                FirstParagraphIndex(lines))
  IN Of(stripMarkdown(Chars(doc)), toLowerCase(Chars(opts.targetKeyword)))

\* A walk that would measure the first heading against level 0
SkippedFromLevelZero(headings, i, previousLevel) ==
  LET Before(k) == IF k = 1 THEN 0 ELSE headings[k - 1].level
  IN SelectSeqRec([k \in 1..Len(headings) |->
                     "H" \o ToString(Before(k)) \o " -> H"
                       \o ToString(headings[k].level)],
                  {k \in 1..Len(headings) : headings[k].level > Before(k) + 1})

\* The skipped-levels loop of analyzeStructure over headings i..n (the
\* arrow of the source's label is written "->" here)
RECURSIVE SkippedLevels(_, _, _)
SkippedLevels(headings, i, previousLevel) ==
  IF i > Len(headings) THEN <<>>
  ELSE (IF headings[i].level > previousLevel + 1 /\ previousLevel > 0
        THEN <<"H" \o ToString(previousLevel) \o " -> H"
                 \o ToString(headings[i].level)>>
        ELSE <<>>)
       \o SkippedLevels(headings, i + 1, headings[i].level)

\* The code-block loop of analyzeStructure: blocks opened in lines i..n
RECURSIVE CodeBlocks(_, _, _)
CodeBlocks(lines, i, inCodeBlock) ==
  IF i > Len(lines) THEN 0
  ELSE IF startsWith(Chars(lines[i]), CodeFence)
       THEN (IF inCodeBlock THEN 0 ELSE 1) + CodeBlocks(lines, i + 1, ~inCodeBlock)
       ELSE CodeBlocks(lines, i + 1, inCodeBlock)

\* The paragraph loop of analyzeStructure: paragraphs closed in lines i..n
RECURSIVE Paragraphs(_, _, _)
Paragraphs(lines, i, currentParagraph) ==
  LET Closed(p) == IF p # <<>> THEN <<p>> ELSE <<>>
      Line(cs) ==
        IF trim(cs) = <<>>
        THEN Closed(trim(currentParagraph)) \o Paragraphs(lines, i + 1, <<>>)
        ELSE IF InParagraph(cs)
        THEN Paragraphs(lines, i + 1, currentParagraph \o <<" ">> \o cs)
        ELSE Paragraphs(lines, i + 1, currentParagraph)
  IN IF i > Len(lines) THEN Closed(trim(currentParagraph))
     ELSE Line(Chars(lines[i]))

analyzeStructure(lines) ==
  LET ListItem(cs) ==
        Len(cs) > 0 /\ (MarkerLen(cs, 1, "list") > 0 \/ MarkerLen(cs, 1, "olist") > 0)
      Metrics(headings, skippedLevels, paragraphs) ==
        [headingCount |-> Len(headings),
         h1Count |-> Cardinality({i \in 1..Len(headings) : headings[i].level = 1}),
         hasProperHierarchy |-> Len(skippedLevels) = 0,
         skippedLevels |-> skippedLevels,
         avgParagraphLength |->
           IF Len(paragraphs) > 0
           THEN Round(SumSeq([i \in 1..Len(paragraphs) |->
                                Len(extractWords(paragraphs[i]))]), Len(paragraphs))
           ELSE 0,
         listCount |-> Cardinality({i \in 1..Len(lines) : ListItem(Chars(lines[i]))}),
         codeBlockCount |-> CodeBlocks(lines, 1, FALSE)]
      Of(headings) ==
        Metrics(headings, SkippedLevels(headings, 1, 0), Paragraphs(lines, 1, <<>>))
  IN Of(extractMarkdownHeadings(lines))

analyzeMarkdownContent(doc, opts) ==
  LET Analysis(lines) ==
        [readability |-> analyzeReadability(doc, lines),
         seo |-> analyzeSEO(doc, lines, opts),
         structure |-> analyzeStructure(lines),
         lines |-> lines]
  IN Analysis(parseMarkdownLines(doc))

(***************************************************************************)
(* content-analyzer.ts: instruction generation                             *)
(***************************************************************************)

\* A number held in 1/scale (scale 10 or 100) as JavaScript prints it
FormatScaled(v, scale) ==
  LET Fraction(frac) ==
        IF frac = 0 THEN ""
        ELSE IF scale = 10 THEN "." \o ToString(frac)
        ELSE IF frac % 10 = 0 THEN "." \o ToString(frac \div 10)
        ELSE IF frac < 10 THEN ".0" \o ToString(frac)
        ELSE "." \o ToString(frac)
      Unsigned(a) == ToString(a \div scale) \o Fraction(a % scale)
  IN IF v < 0 THEN "-" \o Unsigned(-v) ELSE Unsigned(v)

NoTarget(type) == [type |-> type, lineNumber |-> 0, startLine |-> 0, selector |-> ""]

Instruction(action, target, current, suggested, reason, priority, category, automated) ==
  [action |-> action, target |-> target,
   value |-> [current |-> current, suggested |-> suggested],
   reason |-> reason, priority |-> priority, category |-> category,
   automated |-> automated]

\* A word-count rule that would rank short content as critical
WordCountRuleCritical(seo) ==
  IF seo.wordCount < 300
  THEN <<Instruction("add", NoTarget("paragraph"),
           ToString(seo.wordCount) \o " words",
           "Add more content to reach at least 300 words for SEO. Aim for 1000-2000 words for blog posts.",
           "Content is too short. Search engines prefer longer, comprehensive content.",
           "critical", "seo", FALSE)>>
  ELSE <<>>

\* A word-count rule that would still ask to expand content of 1000 words
WordCountRuleThrough1000(seo) ==
  IF seo.wordCount < 300
  THEN <<Instruction("add", NoTarget("paragraph"),
           ToString(seo.wordCount) \o " words",
           "Add more content to reach at least 300 words for SEO. Aim for 1000-2000 words for blog posts.",
           "Content is too short. Search engines prefer longer, comprehensive content.",
           "high", "seo", FALSE)>>
  ELSE IF seo.wordCount <= 1000
  THEN <<Instruction("add", NoTarget("paragraph"),
           ToString(seo.wordCount) \o " words",
           "Consider expanding content to 1000-2000 words for better SEO ranking potential.",
           "Content length is acceptable but could be improved for competitive keywords.",
           "low", "seo", FALSE)>>
  ELSE <<>>

WordCountRule(seo) ==
  IF seo.wordCount < 300
  THEN <<Instruction("add", NoTarget("paragraph"),
           ToString(seo.wordCount) \o " words",
           "Add more content to reach at least 300 words for SEO. Aim for 1000-2000 words for blog posts.",
           "Content is too short. Search engines prefer longer, comprehensive content.",
           "high", "seo", FALSE)>>
  ELSE IF seo.wordCount < 1000 /\ seo.wordCount >= 300
  THEN <<Instruction("add", NoTarget("paragraph"),
           ToString(seo.wordCount) \o " words",
           "Consider expanding content to 1000-2000 words for better SEO ranking potential.",
           "Content length is acceptable but could be improved for competitive keywords.",
           "low", "seo", FALSE)>>
  ELSE <<>>

KeywordDensityRule(seo, keyword) ==
  LET Rule(density, current) ==
        IF seo.keywordDensity < 50
        THEN <<Instruction("add", NoTarget("paragraph"), current,
                 "Increase usage of \"" \o keyword \o "\" to reach 1-3% density. Currently at "
                   \o density \o "%.",
                 "Keyword density is too low. Include the target keyword more naturally throughout the content.",
                 "high", "seo", FALSE)>>
        ELSE IF seo.keywordDensity > 300
        THEN <<Instruction("replace", NoTarget("paragraph"), current,
                 "Reduce usage of \"" \o keyword \o "\" to 1-3% density. Currently at "
                   \o density \o "% which may appear as keyword stuffing.",
                 "Keyword density is too high and may be seen as keyword stuffing by search engines.",
                 "high", "seo", FALSE)>>
        ELSE <<>>
      Of(density) ==
        Rule(density, "Keyword \"" \o keyword \o "\" density: " \o density \o "%")
  IN Of(FormatScaled(seo.keywordDensity, 100))

KeywordIntroRule(seo, keyword) ==
  IF ~seo.keywordInFirstParagraph
  THEN <<Instruction("add",
           [NoTarget("paragraph") EXCEPT !.selector = "first paragraph"], "",
           "Include \"" \o keyword \o "\" in the first paragraph/introduction.",
           "Target keyword should appear early in the content for SEO.",
           "medium", "seo", FALSE)>>
  ELSE <<>>

KeywordHeadingRule(seo, keyword) ==
  IF seo.keywordInHeadings = 0
  THEN <<Instruction("add", NoTarget("heading"), "",
           "Include \"" \o keyword \o "\" in at least one heading (H2 or H3).",
           "Keywords in headings signal topic relevance to search engines.",
           "medium", "seo", FALSE)>>
  ELSE <<>>

KeywordRules(seo, opts) ==
  IF opts.targetKeyword # ""
  THEN KeywordDensityRule(seo, opts.targetKeyword)
       \o KeywordIntroRule(seo, opts.targetKeyword)
       \o KeywordHeadingRule(seo, opts.targetKeyword)
  ELSE <<>>

MetaDescriptionRule(seo) ==
  IF ~seo.hasMetaDescription
  THEN <<Instruction("add", NoTarget("frontmatter"), "",
           "description: \"Your 150-160 character meta description here\"",
           "Missing meta description in frontmatter. Add a compelling description for search results.",
           "high", "seo", TRUE)>>
  ELSE <<>>

targetGradeOf(opts) ==
  IF opts.targetAudience = "technical" THEN 12
  ELSE IF opts.targetAudience = "beginner" THEN 6 ELSE 8

GradeRule(readability, opts) ==
  IF readability.fleschKincaid > 10 * (targetGradeOf(opts) + 2)
  THEN <<Instruction("replace", NoTarget("paragraph"),
           "Grade level: " \o FormatScaled(readability.fleschKincaid, 10),
           "Simplify language to reach grade level " \o ToString(targetGradeOf(opts))
             \o ". Use shorter sentences and simpler words.",
           "Content is too complex for "
             \o (IF opts.targetAudience = None THEN "general" ELSE opts.targetAudience)
             \o " audience.",
           "medium", "readability", FALSE)>>
  ELSE <<>>

\* Array.prototype.slice(0, n)
Take(s, n) == SubSeq(s, 1, Min(n, Len(s)))

LongSentenceRules(lines) ==
  LET Split(ls) ==
        Instruction("split",
          [NoTarget("line") EXCEPT !.lineNumber = ls.lineNumber],
          IF Len(ls.sentence) > 80 THEN SubSeq(ls.sentence, 1, 80) \o "..."
          ELSE ls.sentence,
          "Break this sentence into 2-3 shorter sentences.",
          "Sentence has " \o ToString(ls.wordCount)
            \o " words. Keep sentences under 20-25 words for better readability.",
          "medium", "readability", FALSE)
      Each(longSentences) == [k \in 1..Len(longSentences) |-> Split(longSentences[k])]
  IN Each(Take(findLongSentences(lines, 25), 5))

LongParagraphRules(lines) ==
  LET Split(lp) ==
        Instruction("split",
          [NoTarget("range") EXCEPT !.startLine = lp.startLine],
          ToString(lp.sentenceCount) \o " sentences",
          "Break this paragraph into smaller paragraphs (3-4 sentences each).",
          "Long paragraphs reduce readability. Break into digestible chunks.",
          "low", "readability", FALSE)
      Each(longParagraphs) == [k \in 1..Len(longParagraphs) |-> Split(longParagraphs[k])]
  IN Each(Take(findLongParagraphs(lines, 5), 3))

RECURSIVE JoinWith(_, _)
JoinWith(ss, sep) ==
  IF ss = <<>> THEN ""
  ELSE IF Len(ss) = 1 THEN ss[1]
  ELSE ss[1] \o sep \o JoinWith(Tail(ss), sep)

PassiveVoiceRule(lines) ==
  LET Example(p) == "Line " \o ToString(p.lineNumber) \o ": \"" \o p.text \o "\""
      Examples(first) == JoinWith([k \in 1..Len(first) |-> Example(first[k])], ", ")
      Rule(passiveInstances) ==
        IF Len(passiveInstances) > 3
        THEN <<Instruction("replace", NoTarget("paragraph"),
                 ToString(Len(passiveInstances)) \o " passive voice instances",
                 "Rewrite using active voice. Examples: "
                   \o Examples(Take(passiveInstances, 3)),
                 "Excessive passive voice makes content feel weak. Use active voice for more engaging content.",
                 "low", "readability", FALSE)>>
        ELSE <<>>
  IN Rule(detectPassiveVoice(lines))

ComplexWordsRule(readability) ==
  IF readability.complexWordPercentage > 150
  THEN <<Instruction("replace", NoTarget("paragraph"),
           FormatScaled(readability.complexWordPercentage, 10) \o "% complex words",
           "Replace complex words (3+ syllables) with simpler alternatives where possible.",
           "Too many complex words reduce readability. Aim for under 15% complex words.",
           "medium", "readability", FALSE)>>
  ELSE <<>>

\* An H1 rule that would demote every H1 heading, the first one too
H1RulesDemoteAll(structure, lines) ==
  LET Demote(h) ==
        Instruction("replace",
          [NoTarget("heading") EXCEPT !.lineNumber = h.lineNumber,
                                      !.selector = "# " \o h.text],
          "# " \o h.text, "## " \o h.text,
          "Multiple H1 headings found. Convert additional H1s to H2.",
          "high", "structure", TRUE)
      Each(extra) == [k \in 1..Len(extra) |-> Demote(extra[k])]
      H1s(all) == SelectSeqRec(all, {i \in 1..Len(all) : all[i].level = 1})
  IN IF structure.h1Count = 0
     THEN <<Instruction("add", [NoTarget("heading") EXCEPT !.lineNumber = 1], "",
              "# Your Main Title Here",
              "Missing H1 heading. Every page should have exactly one H1.",
              "critical", "structure", TRUE)>>
     ELSE IF structure.h1Count > 1
     THEN Each(H1s(extractMarkdownHeadings(lines)))
     ELSE <<>>

H1Rules(structure, lines) ==
  LET Demote(h) ==
        Instruction("replace",
          [NoTarget("heading") EXCEPT !.lineNumber = h.lineNumber,
                                      !.selector = "# " \o h.text],
          "# " \o h.text, "## " \o h.text,
          "Multiple H1 headings found. Convert additional H1s to H2.",
          "high", "structure", TRUE)
      Each(extra) == [k \in 1..Len(extra) |-> Demote(extra[k])]
      AfterFirst(headings) == IF Len(headings) = 0 THEN <<>> ELSE Tail(headings)
      H1s(all) == SelectSeqRec(all, {i \in 1..Len(all) : all[i].level = 1})
  IN IF structure.h1Count = 0
     THEN <<Instruction("add", [NoTarget("heading") EXCEPT !.lineNumber = 1], "",
              "# Your Main Title Here",
              "Missing H1 heading. Every page should have exactly one H1.",
              "critical", "structure", TRUE)>>
     ELSE IF structure.h1Count > 1
     THEN Each(AfterFirst(H1s(extractMarkdownHeadings(lines))))
     ELSE <<>>

HierarchyRules(structure) ==
  IF ~structure.hasProperHierarchy
  THEN [k \in 1..Len(structure.skippedLevels) |->
          Instruction("replace", NoTarget("heading"), structure.skippedLevels[k],
            "Fix heading hierarchy - don't skip levels ("
              \o structure.skippedLevels[k] \o ")",
            "Skipped heading levels hurt accessibility and SEO. Use sequential levels.",
            "medium", "structure", FALSE)]
  ELSE <<>>

FewHeadingsRule(structure, seo) ==
  IF structure.headingCount < 3 /\ seo.wordCount > 500
  THEN <<Instruction("add", NoTarget("heading"), "",
           "Add H2 subheadings to break up content into sections.",
           "Long content should be divided with subheadings for better scanability.",
           "medium", "structure", FALSE)>>
  ELSE <<>>

priorityOrder == [critical |-> 0, high |-> 1, medium |-> 2, low |-> 3]

\* A generator that would return the instructions in generation order
KeepGenerationOrder(s) == s

\* A sort by priority that reverses the instructions of equal priority
SortTiesReversed(s) ==
  LET Of(p) == SelectSeqRec(s, {i \in 1..Len(s) : s[i].priority = p})
      Reversed(t) == [i \in 1..Len(t) |-> t[Len(t) + 1 - i]]
  IN Reversed(Of("critical")) \o Reversed(Of("high"))
       \o Reversed(Of("medium")) \o Reversed(Of("low"))

\* instructions.sort((a, b) => priorityOrder[a.priority] - priorityOrder[b.priority]):
\* Array.prototype.sort is stable, so each element goes behind the
\* elements that do not compare greater than it.
RECURSIVE SortByPriority(_)
SortByPriority(s) ==
  IF s = <<>> THEN <<>>
  ELSE LET Placed(front, x, k) ==
             SubSeq(front, 1, k) \o <<x>> \o SubSeq(front, k + 1, Len(front))
           Insert(front, x) ==
             Placed(front, x,
                    Cardinality({i \in 1..Len(front) :
                      priorityOrder[front[i].priority] - priorityOrder[x.priority] <= 0}))
       IN Insert(SortByPriority(SubSeq(s, 1, Len(s) - 1)), s[Len(s)])

\* The instructions in the order the rules push them
GeneratedInstructions(an, opts) ==
  WordCountRule(an.seo)
  \o KeywordRules(an.seo, opts)
  \o MetaDescriptionRule(an.seo)
  \o GradeRule(an.readability, opts)
  \o LongSentenceRules(an.lines)
  \o LongParagraphRules(an.lines)
  \o PassiveVoiceRule(an.lines)
  \o ComplexWordsRule(an.readability)
  \o H1Rules(an.structure, an.lines)
  \o HierarchyRules(an.structure)
  \o FewHeadingsRule(an.structure, an.seo)

generateContentInstructions(an, opts) ==
  SortByPriority(GeneratedInstructions(an, opts))

CountCategory(instrs, category) ==
  Cardinality({i \in 1..Len(instrs) : instrs[i].category = category})

calculateCategoryScores(an, instrs) ==
  LET Scores(seoIssues, readabilityIssues, structureIssues) ==
        [seo |-> [score |-> Max(0, 100 - seoIssues * 15), issues |-> seoIssues],
         readability |-> [score |-> Max(0, 100 - readabilityIssues * 10),
                          issues |-> readabilityIssues],
         structure |-> [score |-> Max(0, 100 - structureIssues * 12),
                        issues |-> structureIssues]]
  IN Scores(CountCategory(instrs, "seo"), CountCategory(instrs, "readability"),
            CountCategory(instrs, "structure"))

(***************************************************************************)
(* jsonld.ts: JSON-LD values.  A value is a record of one shape: k is its  *)
(* kind, s the text of a string, n the value of a number, kids the         *)
(* members of an object (key, val) or the elements of an array (val).      *)
(***************************************************************************)

Undefined == [k |-> "undefined", s |-> "", n |-> 0, kids |-> <<>>]
Null == [k |-> "null", s |-> "", n |-> 0, kids |-> <<>>]
True == [k |-> "boolean", s |-> "true", n |-> 1, kids |-> <<>>]
Str(s) == [k |-> "string", s |-> s, n |-> 0, kids |-> <<>>]
Num(n) == [k |-> "number", s |-> "", n |-> n, kids |-> <<>>]
Arr(vals) ==
  [k |-> "array", s |-> "", n |-> 0,
   kids |-> [i \in 1..Len(vals) |-> [key |-> ToString(i - 1), val |-> vals[i]]]]
Obj(members) ==
  [k |-> "object", s |-> "", n |-> 0,
   kids |-> [i \in 1..Len(members) |-> [key |-> members[i][1], val |-> members[i][2]]]]

\* prop in typed: an own member of the object has the key
In(prop, typed) == \E i \in 1..Len(typed.kids) : typed.kids[i].key = prop

\* typed[prop]: the member's value, undefined when the object has none
Get(typed, prop) ==
  IF In(prop, typed)
  THEN typed.kids[CHOOSE i \in 1..Len(typed.kids) : typed.kids[i].key = prop].val
  ELSE Undefined

(***************************************************************************)
(* jsonld.ts: schema registry and property validators                      *)
(***************************************************************************)

EXTENDED_SCHEMA_TYPES ==
  [Article |->
     [requiredProperties |-> <<"headline", "author", "datePublished">>,
      recommendedProperties |->
        <<"image", "dateModified", "publisher", "description", "mainEntityOfPage">>],
   NewsArticle |->
     [requiredProperties |-> <<"headline", "author", "datePublished">>,
      recommendedProperties |->
        <<"image", "dateModified", "publisher", "description", "articleBody">>],
   BlogPosting |->
     [requiredProperties |-> <<"headline", "author", "datePublished">>,
      recommendedProperties |->
        <<"image", "dateModified", "publisher", "description", "wordCount">>],
   Product |->
     [requiredProperties |-> <<"name">>,
      recommendedProperties |->
        <<"image", "description", "sku", "brand", "offers", "review", "aggregateRating">>],
   LocalBusiness |->
     [requiredProperties |-> <<"name", "address">>,
      recommendedProperties |->
        <<"image", "telephone", "openingHours", "priceRange", "geo", "review">>],
   Organization |->
     [requiredProperties |-> <<"name">>,
      recommendedProperties |-> <<"url", "logo", "contactPoint", "sameAs", "description">>],
   Person |->
     [requiredProperties |-> <<"name">>,
      recommendedProperties |-> <<"image", "url", "sameAs", "jobTitle", "worksFor">>],
   WebPage |->
     [requiredProperties |-> <<"name">>,
      recommendedProperties |-> <<"description", "breadcrumb", "mainEntity", "lastReviewed">>],
   WebSite |->
     [requiredProperties |-> <<"name", "url">>,
      recommendedProperties |-> <<"potentialAction", "publisher", "description">>],
   FAQPage |->
     [requiredProperties |-> <<"mainEntity">>, recommendedProperties |-> <<>>],
   HowTo |->
     [requiredProperties |-> <<"name", "step">>,
      recommendedProperties |-> <<"image", "totalTime", "estimatedCost", "supply", "tool">>],
   Recipe |->
     [requiredProperties |-> <<"name", "recipeIngredient">>,
      recommendedProperties |->
        <<"image", "author", "prepTime", "cookTime", "recipeInstructions", "nutrition">>],
   Event |->
     [requiredProperties |-> <<"name", "startDate", "location">>,
      recommendedProperties |->
        <<"endDate", "image", "description", "offers", "performer", "organizer">>],
   BreadcrumbList |->
     [requiredProperties |-> <<"itemListElement">>, recommendedProperties |-> <<>>],
   VideoObject |->
     [requiredProperties |-> <<"name", "description", "thumbnailUrl", "uploadDate">>,
      recommendedProperties |->
        <<"duration", "contentUrl", "embedUrl", "interactionCount", "expires">>],
   ImageObject |->
     [requiredProperties |-> <<"contentUrl">>,
      recommendedProperties |->
        <<"name", "description", "caption", "width", "height", "author">>],
   Review |->
     [requiredProperties |-> <<"itemReviewed", "author">>,
      recommendedProperties |-> <<"reviewRating", "reviewBody", "datePublished">>],
   AggregateRating |->
     [requiredProperties |-> <<"ratingValue">>,
      recommendedProperties |->
        <<"reviewCount", "ratingCount", "bestRating", "worstRating">>],
   Offer |->
     [requiredProperties |-> <<"price", "priceCurrency">>,
      recommendedProperties |->
        <<"availability", "priceValidUntil", "url", "seller", "itemCondition">>],
   SoftwareApplication |->
     [requiredProperties |-> <<"name">>,
      recommendedProperties |->
        <<"operatingSystem", "applicationCategory", "offers", "aggregateRating",
          "screenshot">>]]

\* The registry is an object literal: a lookup by a key it does not own
\* goes on to Object.prototype, whose members are functions or objects
\* (truthy, and without requiredProperties).
ObjectPrototypeKeys ==
  {"constructor", "toString", "toLocaleString", "valueOf", "hasOwnProperty",
   "isPrototypeOf", "propertyIsEnumerable", "__proto__"}

SchemeChars == LowerLetters \cup DOMAIN UpperToLower \cup Digits \cup {"+", "-", "."}

\* new URL(value) succeeds: the text has a scheme, and after http: or
\* https: a host
isValidUrl(value) ==
  LET Hosted(cs, k) ==
        IF Join(toLowerCase(SubSeq(cs, 1, k - 1))) \in {"http", "https"}
        THEN FirstOutside(cs, k + 1, {"/", "\\"}) <= Len(cs)
        ELSE TRUE
      Parsed(cs, k) ==
        /\ k > 1 /\ k <= Len(cs) /\ cs[k] = ":"
        /\ cs[1] \in LowerLetters \cup DOMAIN UpperToLower
        /\ Hosted(cs, k)
      Url(cs) == Parsed(cs, FirstOutside(cs, 1, SchemeChars))
  IN value.k = "string" /\ Url(trim(Chars(value.s)))

\* /^\d{4}-\d{2}-\d{2}(T\d{2}:\d{2}:\d{2})?/.test(value): the pattern has no
\* end anchor, so the date prefix decides
isValidISODate(value) ==
  LET Dated(cs) ==
        /\ Len(cs) >= 10
        /\ \A i \in {1, 2, 3, 4, 6, 7, 9, 10} : cs[i] \in Digits
        /\ cs[5] = "-" /\ cs[8] = "-"
  IN value.k = "string" /\ Dated(Chars(value.s))

DigitValue ==
  [c \in Digits |->
     CHOOSE v \in 0..9 : <<"0","1","2","3","4","5","6","7","8","9">>[v + 1] = c]

\* The value of a run of digits
RECURSIVE Decimal(_)
Decimal(ds) ==
  IF ds = <<>> THEN 0
  ELSE 10 * Decimal(SubSeq(ds, 1, Len(ds) - 1)) + DigitValue[ds[Len(ds)]]

\* parseFloat(text): leading whitespace, a sign, digits and a fraction;
\* what follows is ignored.  whole is the integer part, fraction tells
\* whether the fraction digits hold a non-zero one.
parseFloat(cs) ==
  LET Number(neg, from, dot, end) ==
        [nan |-> dot = from /\ end <= dot + 1,
         negative |-> neg,
         whole |-> Decimal(SubSeq(cs, from, dot - 1)),
         fraction |-> \E i \in (dot + 1)..(end - 1) : cs[i] # "0"]
      Digits2(neg, from, dot) ==
        Number(neg, from, dot,
               IF dot <= Len(cs) /\ cs[dot] = "."
               THEN FirstOutside(cs, dot + 1, Digits) ELSE dot)
      Unsigned(neg, from) == Digits2(neg, from, FirstOutside(cs, from, Digits))
      Signed(i) ==
        IF i <= Len(cs) /\ cs[i] \in {"+", "-"}
        THEN Unsigned(cs[i] = "-", i + 1) ELSE Unsigned(FALSE, i)
  IN Signed(FirstOutside(cs, 1, WhiteSpace))

isValidRating(value) ==
  LET InRange(num) ==
        /\ ~num.nan
        /\ (~num.negative \/ (num.whole = 0 /\ ~num.fraction))
        /\ (num.whole < 5 \/ (num.whole = 5 /\ ~num.fraction))
  IN IF value.k = "number" THEN value.n >= 0 /\ value.n <= 5
     ELSE IF value.k = "string" THEN InRange(parseFloat(Chars(value.s)))
     ELSE FALSE

urlProperties == {"url", "image", "logo", "contentUrl", "thumbnailUrl", "embedUrl"}

dateProperties ==
  {"datePublished", "dateModified", "uploadDate", "expires", "priceValidUntil"}

Validation(property, value, isValid, issue, expectedFormat) ==
  [property |-> property, value |-> value, isValid |-> isValid, issue |-> issue,
   expectedFormat |-> expectedFormat]

\* issue and expectedFormat are "" where the source leaves them unset
validateProperty(property, value, schemaType) ==
  IF property \in urlProperties /\ value.k = "string" /\ ~isValidUrl(value)
  THEN Validation(property, value, FALSE, "Invalid URL format",
                  "https://example.com/path")
  ELSE IF property \in dateProperties /\ ~isValidISODate(value)
  THEN Validation(property, value, FALSE, "Invalid date format",
                  "YYYY-MM-DD or YYYY-MM-DDTHH:MM:SS")
  ELSE IF property = "ratingValue" /\ ~isValidRating(value)
  THEN Validation(property, value, FALSE, "Rating should be between 0 and 5",
                  "Number between 0-5")
  ELSE IF property = "price" /\ value.k \notin {"number", "string"}
  THEN Validation(property, value, FALSE, "Price should be a number or numeric string",
                  "Number (e.g., 29.99)")
  ELSE Validation(property, value, TRUE, "", "")

(***************************************************************************)
(* jsonld.ts: schema analysis                                              *)
(***************************************************************************)

\* String(value) of the values an @type array can start with
StringOf(value) ==
  IF value.k = "string" THEN value.s
  ELSE IF value.k = "number" THEN ToString(value.n)
  ELSE IF value.k = "boolean" THEN value.s
  ELSE IF value.k = "object" THEN "[object Object]"
  ELSE value.k

getSchemaType(data) ==
  LET Typed(type) ==
        IF type.k = "string" THEN type.s
        ELSE IF type.k = "array" /\ Len(type.kids) > 0 THEN StringOf(type.kids[1].val)
        ELSE "Unknown"
  IN IF In("@type", data) THEN Typed(Get(data, "@type")) ELSE "Unknown"

hasProperty(data, prop) ==
  In(prop, data) /\ Get(data, prop).k \notin {"undefined", "null"}

\* typeof typed['@id'] === 'string' ? typed['@id'] : undefined
SchemaId(data) == IF Get(data, "@id").k = "string" THEN Get(data, "@id") ELSE Undefined

\* The result of analyzeSchema; threw tells that the call ended in an
\* exception instead of a result.
SchemaAnalysis(type, data, isValid, validationScore, completenessScore, required, recommended, missingRequired, missingRecommended, warnings, suggestions) ==
  [threw |-> FALSE, type |-> type, id |-> SchemaId(data), isValid |-> isValid,
   validationScore |-> validationScore, completenessScore |-> completenessScore,
   requiredProperties |-> required, recommendedProperties |-> recommended,
   missingRequired |-> missingRequired, missingRecommended |-> missingRecommended,
   warnings |-> warnings, suggestions |-> suggestions, rawData |-> data]

\* for (const prop of schemaSpec.requiredProperties) where schemaSpec is a
\* member of Object.prototype: requiredProperties is undefined, and
\* iterating it is a TypeError
SchemaThrew(type, data) ==
  [SchemaAnalysis(type, data, FALSE, 0, 0, <<>>, <<>>, <<>>, <<>>, <<>>, <<>>)
     EXCEPT !.threw = TRUE]

\* The properties of props the node has
PresentProperties(data, props) ==
  SelectSeqRec(props, {i \in 1..Len(props) : hasProperty(data, props[i])})

\* The properties of props that are no member of the node
MissingMembers(data, props) ==
  SelectSeqRec(props, {i \in 1..Len(props) : ~In(props[i], data)})

\* The properties of props the node lacks, in the order of props
MissingProperties(data, props) ==
  SelectSeqRec(props, {i \in 1..Len(props) : ~hasProperty(data, props[i])})

\* A validation in which a malformed property would spoil the records of
\* the properties checked after it
ValidateAllAfterFailure(data, props, type) ==
  LET Spoilt(plain) ==
        [i \in 1..Len(plain) |->
           IF \E j \in 1..(i - 1) : ~plain[j].isValid
           THEN [plain[i] EXCEPT !.isValid = FALSE, !.issue = "Not validated"]
           ELSE plain[i]]
  IN Spoilt([i \in 1..Len(props) |-> validateProperty(props[i], Get(data, props[i]), type)])

ValidateAll(data, props, type) ==
  [i \in 1..Len(props) |-> validateProperty(props[i], Get(data, props[i]), type)]

\* An analysis that would raise no warning for an invalid property
NoPropertyWarnings(validations) == <<>>

PropertyWarnings(validations) ==
  LET Invalid(vs) == [i \in 1..Len(vs) |-> vs[i].property \o ": " \o vs[i].issue]
  IN Invalid(SelectSeqRec(validations,
                          {i \in 1..Len(validations) : ~validations[i].isValid}))

SchemaSuggestions(missingRequired, missingRecommended) ==
  (IF Len(missingRequired) > 0
   THEN <<"Add required properties: " \o JoinWith(missingRequired, ", ")>>
   ELSE <<>>)
  \o (IF Len(missingRecommended) > 0 /\ Len(missingRecommended) <= 3
      THEN <<"Consider adding: " \o JoinWith(missingRecommended, ", ")>>
      ELSE IF Len(missingRecommended) > 3
      THEN <<"Consider adding recommended properties to enhance rich results">>
      ELSE <<>>)

analyzeSchema(data) ==
  LET Scored(type, schemaSpec, required, recommended, missingRequired,
             missingRecommended, warnings) ==
        SchemaAnalysis(type, data,
          Len(missingRequired) = 0 /\ Len(warnings) = 0,
          IF Len(schemaSpec.requiredProperties) > 0
          THEN Round(100 * Len(SelectSeqRec(required,
                       {i \in 1..Len(required) : required[i].isValid})),
                     Len(schemaSpec.requiredProperties))
          ELSE 100,
          IF Len(schemaSpec.recommendedProperties) > 0
          THEN Round(100 * (Len(schemaSpec.recommendedProperties)
                            - Len(missingRecommended)),
                     Len(schemaSpec.recommendedProperties))
          ELSE 100,
          required, recommended, missingRequired, missingRecommended, warnings,
          SchemaSuggestions(missingRequired, missingRecommended))
      Validated(type, schemaSpec, required, recommended) ==
        Scored(type, schemaSpec, required, recommended,
               MissingProperties(data, schemaSpec.requiredProperties),
               MissingProperties(data, schemaSpec.recommendedProperties),
               PropertyWarnings(required) \o PropertyWarnings(recommended))
      Known(type, schemaSpec) ==
        Validated(type, schemaSpec,
          ValidateAll(data, PresentProperties(data, schemaSpec.requiredProperties), type),
          ValidateAll(data, PresentProperties(data, schemaSpec.recommendedProperties),
                      type))
      Analyzed(type) ==
        IF type \in DOMAIN EXTENDED_SCHEMA_TYPES
        THEN Known(type, EXTENDED_SCHEMA_TYPES[type])
        ELSE IF type \in ObjectPrototypeKeys
        THEN SchemaThrew(type, data)
        ELSE SchemaAnalysis(type, data, type # "Unknown",
               IF type = "Unknown" THEN 0 ELSE 50, 0, <<>>, <<>>, <<>>, <<>>,
               <<"Schema type \"" \o type \o "\" is not in the known schema registry">>,
               <<"Add a valid @type property from Schema.org vocabulary">>)
  IN Analyzed(getSchemaType(data))

(***************************************************************************)
(* jsonld.ts: graph analysis                                               *)
(***************************************************************************)

\* Array.from(new Set(s)): the first occurrence of every element
Dedup(s) == SelectSeqRec(s, {i \in 1..Len(s) : \A j \in 1..(i - 1) : s[j] # s[i]})

Range(s) == {s[i] : i \in 1..Len(s)}

\* const id = typeof itemTyped['@id'] === 'string' ? itemTyped['@id'] : null,
\* followed by if (id): the item has a non-empty string @id
HasNodeId(item) == Get(item, "@id").k = "string" /\ Get(item, "@id").s # ""

\* First pass: the keys of the references map in insertion order
NodeIdOrder(graph) ==
  LET Ids(items) == [i \in 1..Len(items) |-> Get(items[i], "@id").s]
  IN Dedup(Ids(SelectSeqRec(graph, {i \in 1..Len(graph) : HasNodeId(graph[i])})))

\* The target ids findReferences adds for one value, in the order of the
\* walk (a set keeps the first of each)
\* A walk that would also collect the id of the source node itself
RECURSIVE findReferencesWithSelf(_, _, _)
findReferencesWithSelf(obj, sourceId, nodeIds) ==
  LET Own(targetId) ==
        IF targetId.k = "string" /\ targetId.s \in nodeIds
        THEN <<targetId.s>> ELSE <<>>
  IN IF obj.k \in {"array", "object"}
     THEN (IF obj.k = "object" THEN Own(Get(obj, "@id")) ELSE <<>>)
          \o ConcatAll([i \in 1..Len(obj.kids) |->
                          findReferencesWithSelf(obj.kids[i].val, sourceId, nodeIds)])
     ELSE <<>>

RECURSIVE findReferences(_, _, _)
findReferences(obj, sourceId, nodeIds) ==
  LET Below == ConcatAll([i \in 1..Len(obj.kids) |->
                            findReferences(obj.kids[i].val, sourceId, nodeIds)])
      Own(targetId) ==
        IF targetId.k = "string" /\ targetId.s \in nodeIds /\ targetId.s # sourceId
        THEN <<targetId.s>> ELSE <<>>
  IN IF obj.k \in {"array", "object"}
     THEN (IF obj.k = "object" THEN Own(Get(obj, "@id")) ELSE <<>>) \o Below
     ELSE <<>>

\* Second pass: the references map
References(graph) ==
  LET Found(nodeIds) ==
        [id \in nodeIds |->
           Dedup(ConcatAll([i \in 1..Len(graph) |->
                   IF HasNodeId(graph[i]) /\ Get(graph[i], "@id").s = id
                   THEN findReferences(graph[i], id, nodeIds) ELSE <<>>]))]
  IN Found(Range(NodeIdOrder(graph)))

\* A referencedBy map that stays empty
NoReferencedBy(order, references) == [id \in DOMAIN references |-> <<>>]

\* The referencedBy map: the sources of every target, in the order the
\* references map is iterated
ReferencedBy(order, references) ==
  [id \in DOMAIN references |->
     SelectSeqRec(order, {i \in 1..Len(order) : id \in Range(references[order[i]])})]

GraphNodes(graph, references, referencedBy) ==
  LET Node(id, type) ==
        [id |-> id, type |-> type,
         references |-> IF id \in DOMAIN references THEN references[id] ELSE <<>>,
         referencedBy |-> IF id \in DOMAIN referencedBy THEN referencedBy[id] ELSE <<>>]
  IN [i \in 1..Len(graph) |->
        Node(IF Get(graph[i], "@id").k = "string" THEN Get(graph[i], "@id").s
             ELSE "_:node" \o ToString(i - 1),
             getSchemaType(graph[i]))]

\* The characters of ids in the order of their UTF-16 code units
CodeOrder ==
  Chars(" !#$%&'()*+,-./0123456789:;<=>?@ABCDEFGHIJKLMNOPQRSTUVWXYZ[]^_abcdefghijklmnopqrstuvwxyz{|}~")

CharCode(c) == CHOOSE i \in 1..Len(CodeOrder) : CodeOrder[i] = c

\* a < b for strings, as the default comparison of Array.prototype.sort
StringLess(a, b) ==
  LET Decide(as, bs, differ) ==
        IF differ = {} THEN Len(as) < Len(bs)
        ELSE LET k == CHOOSE i \in differ : \A j \in differ : i <= j
             IN CharCode(as[k]) < CharCode(bs[k])
      Compare(as, bs) ==
        Decide(as, bs, {i \in 1..Min(Len(as), Len(bs)) : as[i] # bs[i]})
  IN Compare(Chars(a), Chars(b))

\* [node.id, ref].join(' <-> ')
UnsortedPair(id, ref) == id \o " <-> " \o ref

\* [node.id, ref].sort().join(' <-> ')
CircularPair(id, ref) ==
  IF StringLess(ref, id) THEN ref \o " <-> " \o id ELSE id \o " <-> " \o ref

\* The pairs joined by a path of at most n + 1 edges
RECURSIVE PathsWithin(_, _)
PathsWithin(edges, n) ==
  IF n = 0 THEN edges
  ELSE LET Longer(paths) ==
             paths \cup {<<t[1][1], t[2][2]>> :
                           t \in {u \in paths \X edges : u[1][2] = u[2][1]}}
       IN Longer(PathsWithin(edges, n - 1))

\* A detector that would report every reference that lies on a cycle,
\* whatever the length of the cycle
CyclesOfAnyLength(nodes) ==
  LET EdgesOf(i) == {<<nodes[i].id, r>> : r \in Range(nodes[i].references)}
      Pairs(node, refs) == [k \in 1..Len(refs) |-> CircularPair(node.id, refs[k])]
      OfNode(node, paths) ==
        Pairs(node, SelectSeqRec(node.references,
                      {k \in 1..Len(node.references) :
                         <<node.references[k], node.id>> \in paths}))
      Found(paths) == Dedup(ConcatAll([i \in 1..Len(nodes) |-> OfNode(nodes[i], paths)]))
  IN Found(PathsWithin(UNION {EdgesOf(i) : i \in 1..Len(nodes)}, Len(nodes)))

CircularReferences(nodes) ==
  LET TargetNode(ref) == nodes[CHOOSE i \in 1..Len(nodes) :
                                 /\ nodes[i].id = ref
                                 /\ \A j \in 1..(i - 1) : nodes[j].id # ref]
      Mutual(node, ref) ==
        /\ \E i \in 1..Len(nodes) : nodes[i].id = ref
        /\ node.id \in Range(TargetNode(ref).references)
      Pairs(node, refs) == [k \in 1..Len(refs) |-> CircularPair(node.id, refs[k])]
      OfNode(node) ==
        Pairs(node, SelectSeqRec(node.references,
                      {k \in 1..Len(node.references) : Mutual(node, node.references[k])}))
  IN Dedup(ConcatAll([i \in 1..Len(nodes) |-> OfNode(nodes[i])]))

NullGraphAnalysis ==
  [hasGraph |-> FALSE, nodeCount |-> 0, nodes |-> <<>>, rootNodes |-> <<>>,
   orphanNodes |-> <<>>, circularReferences |-> <<>>]

\* null is modelled by the record whose hasGraph is FALSE
analyzeGraph(data) ==
  LET Ids(ns) == [i \in 1..Len(ns) |-> ns[i].id]
      Result(nodes) ==
        [hasGraph |-> TRUE,
         nodeCount |-> Len(nodes),
         nodes |-> nodes,
         rootNodes |->
           Ids(SelectSeqRec(nodes,
                 {i \in 1..Len(nodes) : Len(nodes[i].referencedBy) = 0})),
         orphanNodes |->
           Ids(SelectSeqRec(nodes,
                 {i \in 1..Len(nodes) : /\ Len(nodes[i].referencedBy) = 0
                                          /\ Len(nodes[i].references) = 0})),
         circularReferences |-> CircularReferences(nodes)]
      Linked(graph, order, references) ==
        Result(GraphNodes(graph, references, ReferencedBy(order, references)))
      Graph(items) ==
        Linked([i \in 1..Len(items) |-> items[i].val],
               NodeIdOrder([i \in 1..Len(items) |-> items[i].val]),
               References([i \in 1..Len(items) |-> items[i].val]))
  IN IF ~In("@graph", data) \/ Get(data, "@graph").k # "array"
     THEN NullGraphAnalysis
     ELSE Graph(Get(data, "@graph").kids)

(***************************************************************************)
(* jsonld.ts: the schema score.  Its averages and weighted parts are       *)
(* numbers of JavaScript, IEEE 754 doubles: a double is m * 2^x with the   *)
(* natural number m written in limbs of 13 bits, the lowest limb first,    *)
(* and every division and multiplication rounds its exact result to 53     *)
(* significant bits, ties to the even neighbour.                           *)
(***************************************************************************)

RECURSIVE Pow2(_)
Pow2(k) == IF k = 0 THEN 1 ELSE 2 * Pow2(k - 1)

Limb == Pow2(13)

\* The limbs without the zero limbs at the top
Trim(x) ==
  LET used == {i \in 1..Len(x) : x[i] # 0}
  IN IF used = {} THEN <<>>
     ELSE SubSeq(x, 1, CHOOSE i \in used : \A j \in used : j <= i)

\* The limbs of a natural number below 2^31
Limbs(v) == Trim(<<v % Limb, (v \div Limb) % Limb, v \div (Limb * Limb)>>)

RECURSIVE LimbsValue(_)
LimbsValue(x) ==
  IF Len(x) = 0 THEN 0 ELSE x[1] + Limb * LimbsValue(Tail(x))

RECURSIVE MulFrom(_, _, _, _)
MulFrom(x, m, i, carry) ==
  IF i > Len(x) THEN (IF carry = 0 THEN <<>> ELSE <<carry>>)
  ELSE <<(x[i] * m + carry) % Limb>>
         \o MulFrom(x, m, i + 1, (x[i] * m + carry) \div Limb)

\* x * m for 0 < m <= 2^13
MulSmall(x, m) == MulFrom(x, m, 1, 0)

RECURSIVE DivFrom(_, _, _, _)
DivFrom(x, d, i, rem) ==
  IF i = 0 THEN [q |-> <<>>, r |-> rem]
  ELSE LET Step(lower, digit) == [q |-> lower.q \o <<digit>>, r |-> lower.r]
       IN Step(DivFrom(x, d, i - 1, (rem * Limb + x[i]) % d),
               (rem * Limb + x[i]) \div d)

\* Quotient and remainder of x by d for 0 < d <= 2^17
DivSmall(x, d) ==
  LET Trimmed(res) == [q |-> Trim(res.q), r |-> res.r]
  IN Trimmed(DivFrom(x, d, Len(x), 0))

\* The number of bits of x
BitLength(x) ==
  IF Len(x) = 0 THEN 0
  ELSE 13 * (Len(x) - 1)
         + (CHOOSE k \in 1..13 : Pow2(k - 1) <= x[Len(x)] /\ x[Len(x)] < Pow2(k))

ShiftLeft(x, t) ==
  IF Len(x) = 0 THEN <<>>
  ELSE [i \in 1..(t \div 13) |-> 0] \o MulSmall(x, Pow2(t % 13))

ShiftRight(x, t) ==
  DivSmall(SubSeq(x, t \div 13 + 1, Len(x)), Pow2(t % 13)).q

AddOne(x) ==
  LET At(i) ==
        IF i > Len(x) THEN [j \in 1..Len(x) |-> 0] \o <<1>>
        ELSE [j \in 1..Len(x) |->
                IF j < i THEN 0 ELSE IF j = i THEN x[j] + 1 ELSE x[j]]
      Free == {i \in 1..Len(x) : x[i] # Limb - 1}
  IN IF Free = {} THEN At(Len(x) + 1)
     ELSE At(CHOOSE i \in Free : \A j \in Free : i <= j)

Double(m, x) == [m |-> m, x |-> x]

\* An integer as a double, exact below 2^31
DoubleOf(v) == Double(Limbs(v), 0)

\* The double nearest to (n / d) * 2^x, ties to even, for 0 < d <= 2^7:
\* the quotient is scaled to exactly 53 bits and rounded on its remainder
RoundToDouble(n, d, x) ==
  LET Rounded(qr, den, exponent) ==
        Double(IF 2 * qr.r > den \/ (2 * qr.r = den /\ qr.q[1] % 2 = 1)
               THEN AddOne(qr.q) ELSE qr.q,
               exponent)
      Scaled(n7, t) ==
        IF t >= 0
        THEN Rounded(DivSmall(ShiftLeft(n7, t), d), d, x - 7 - t)
        ELSE Rounded(DivSmall(n7, d * Pow2(0 - t)), d * Pow2(0 - t), x - 7 - t)
      Sized(n7) == Scaled(n7, 53 - BitLength(DivSmall(n7, d).q))
  IN IF Len(n) = 0 THEN Double(<<>>, 0) ELSE Sized(ShiftLeft(n, 7))

\* a / d and a * w of JavaScript for small natural numbers d and w
DoubleDiv(a, d) == RoundToDouble(a.m, d, a.x)

DoubleMul(a, w) == RoundToDouble(MulSmall(a.m, w), 1, a.x)

\* Math.round of a non-negative double: floor(a + 1/2)
MathRound(a) ==
  IF a.x >= 0 THEN LimbsValue(ShiftLeft(a.m, a.x))
  ELSE (LimbsValue(ShiftRight(a.m, 0 - a.x - 1)) + 1) \div 2

\* Math.round((average / 100) * weight), the average being sum / length
WeightedAverage(sum, length, weight) ==
  MathRound(DoubleMul(DoubleDiv(DoubleDiv(DoubleOf(sum), length), 100), weight))

contentTypes == {"Article", "BlogPosting", "NewsArticle", "Product", "Event"}

SchemaTypes(schemas) == {schemas[i].type : i \in 1..Len(schemas)}

SchemaCoverage(types) ==
  Min((IF "Organization" \in types \/ "LocalBusiness" \in types THEN 8 ELSE 0)
      + (IF "BreadcrumbList" \in types THEN 7 ELSE 0)
      + (IF "WebPage" \in types \/ "WebSite" \in types THEN 5 ELSE 0)
      + (IF types \cap contentTypes # {} THEN 5 ELSE 0),
      25)

SchemaValidationScore(validation, completeness, coverage) ==
  [validation |-> validation, completeness |-> completeness,
   coverage |-> coverage, overall |-> validation + completeness + coverage]

\* graph is the graphAnalysis argument, which the function never reads
calculateSchemaScore(schemas, graph) ==
  IF Len(schemas) = 0 THEN SchemaValidationScore(0, 0, 0)
  ELSE SchemaValidationScore(
         WeightedAverage(SumSeq([i \in 1..Len(schemas) |-> schemas[i].validationScore]),
                         Len(schemas), 40),
         WeightedAverage(SumSeq([i \in 1..Len(schemas) |-> schemas[i].completenessScore]),
                         Len(schemas), 35),
         SchemaCoverage(SchemaTypes(schemas)))

(***************************************************************************)
(* Inputs of the content engine                                            *)
(***************************************************************************)

\* Longest document body, in lines
MaxDocLines == 3

\* A sentence of 26 words, six sentences on one line, four passive forms
LongSentenceLine ==
  "a b c d e f g h i j k l m n o p q r s t u v w x y z."

ManySentencesLine == "One. Two. Three. Four. Five. Six."

PassiveLine == "It was made. It is done. It was seen. It is given."

BodyLines == {"", "# Cats", "### Deep", "The cat sat.", "Dogs bark."}

\* The lines a document may open with: none, or a frontmatter block
Frontmatters ==
  {<<>>, <<"---", "title: Cat", "---">>, <<"---", "description: \"Pets\"", "---">>}

RECURSIVE SeqsUpTo(_, _)
SeqsUpTo(S, n) ==
  IF n = 0 THEN {<<>>}
  ELSE LET shorter == SeqsUpTo(S, n - 1)
       IN shorter \cup {Append(q, x) : q \in {r \in shorter : Len(r) = n - 1}, x \in S}

\* A document is its lines joined by newlines
Documents ==
  {JoinWith(fm \o body, "\n") : fm \in Frontmatters, body \in SeqsUpTo(BodyLines, MaxDocLines)}

Keywords == {"", "Cat"}

Audiences == {None, "general", "technical", "beginner"}

Options == [targetKeyword : Keywords, targetAudience : Audiences]

\* Analysis records a caller hands to generateContentInstructions directly:
\* the metrics of documents too long to enumerate, on both sides of every
\* threshold of the rules.
SuppliedSeo ==
  [wordCount : {299, 300, 999, 1000},
   keywordCount : {0},
   keywordDensity : {49, 50, 301},
   keywordInFirstParagraph : BOOLEAN,
   keywordInHeadings : {0, 1},
   hasMetaDescription : BOOLEAN]

SuppliedReadability ==
  [fleschKincaid : {80, 101, 141},
   avgSentenceLength : {150},
   avgWordLength : {45},
   complexWordPercentage : {150, 151},
   passiveVoiceCount : {0}]

SuppliedLines ==
  {<<"# Cats", "The cat sat.">>,
   <<"Intro.", "# One", "# Two", "### Three">>,
   <<LongSentenceLine, "", ManySentencesLine, PassiveLine>>}

PlainSeo ==
  [wordCount |-> 1000, keywordCount |-> 0, keywordDensity |-> 50,
   keywordInFirstParagraph |-> TRUE, keywordInHeadings |-> 1,
   hasMetaDescription |-> TRUE]

PlainReadability ==
  [fleschKincaid |-> 80, avgSentenceLength |-> 150, avgWordLength |-> 45,
   complexWordPercentage |-> 150, passiveVoiceCount |-> 0]

SuppliedAnalyses ==
  {[readability |-> r, seo |-> q, structure |-> analyzeStructure(ls), lines |-> ls] :
     r \in {PlainReadability}, q \in SuppliedSeo, ls \in SuppliedLines}
  \cup
  {[readability |-> r, seo |-> q, structure |-> analyzeStructure(ls), lines |-> ls] :
     r \in SuppliedReadability, q \in {PlainSeo, [PlainSeo EXCEPT !.wordCount = 300]},
     ls \in SuppliedLines}

(***************************************************************************)
(* Inputs of the readability formulas                                      *)
(***************************************************************************)

\* Longest text, in pieces
MaxTextPieces == 3

TextPieces ==
  {" ", ".", "?!", "\n", "cat", "Beautiful", "ponies ", "Played, "}

Texts == {JoinWith(ps, "") : ps \in SeqsUpTo(TextPieces, MaxTextPieces)}

\* The longest generated word
MaxWordLength == 5

WordLetters == {"e", "d", "s", "l", "y", "t"}

\* Every lowercase word of these letters, and some words of the language
Words ==
  {Join(q) : q \in SeqsUpTo(WordLetters, MaxWordLength)}
  \cup {"table", "keyed", "radioed", "beautiful", "yes", "rhythm", "jumped", "boxes"}

\* The five formulas as the functions return them, before any rounding
RawScores(cs) ==
  [fleschReadingEase |-> fleschReadingEase(cs),
   fleschKincaidGrade |-> fleschKincaidGrade(cs),
   gunningFog |-> gunningFog(cs),
   smogIndex |-> smogIndex(cs),
   automatedReadabilityIndex |-> automatedReadabilityIndex(cs)]

(***************************************************************************)
(* Inputs of calculateSEOScore                                             *)
(***************************************************************************)

\* The largest number of images of a page
MaxImages == 2

\* String.prototype.repeat
RECURSIVE Repeat(_, _)
Repeat(c, n) ==
  IF n = 0 THEN ""
  ELSE IF n = 1 THEN c
  ELSE Repeat(c, n \div 2) \o Repeat(c, n - n \div 2)

\* "" stands for a null title or description as well
Titles ==
  {"", Repeat("x", 55), "Cat" \o Repeat("x", 52), Repeat("x", 52) \o "Cat",
   "Best cat guide", "Cat guide " \o Repeat("x", 45)}

Descriptions ==
  {"", Repeat("x", 154) \o ".", "This is a cat",
   "Find cat " \o Repeat("x", 145) \o "."}

WordCounts == {0, 999, 1000, 1500, 2600, 6000}

LinkCounts == {<<0, 0>>, <<3, 0>>, <<0, 1>>, <<3, 1>>}

\* Every text with few counts, every count with the two extreme texts, and
\* every title with keywords in either case
SeoInputs ==
  [title : Titles, description : Descriptions, wordCount : {1500},
   h1Count : 0..2, imageCount : {1}, imagesWithAlt : {1},
   links : {<<3, 1>>}, targetKeyword : Keywords]
  \cup
  [title : {"", "Cat guide " \o Repeat("x", 45)},
   description : {"", "Find cat " \o Repeat("x", 145) \o "."},
   wordCount : WordCounts, h1Count : {0, 1}, imageCount : 0..MaxImages,
   imagesWithAlt : 0..MaxImages, links : LinkCounts, targetKeyword : {"Cat"}]
  \cup
  [title : Titles \cup {"cat", "Best cat guide " \o Repeat("x", 40)}, description : {"This is a cat"},
   wordCount : {1500}, h1Count : {1}, imageCount : {1}, imagesWithAlt : {1},
   links : {<<3, 1>>}, targetKeyword : {"x", "X", "CAT", "best"}]

(***************************************************************************)
(* Inputs of the JSON-LD analyses                                          *)
(***************************************************************************)

\* The largest number of items of an @graph
MaxGraphNodes == 3

\* Marks a property the node does not have
Absent == [k |-> "absent", s |-> "", n |-> 0, kids |-> <<>>]

Member(key, value) == IF value = Absent THEN <<>> ELSE << <<key, value>> >>

ArticleNodes ==
  {Obj(Member("@type", type) \o Member("headline", headline)
       \o Member("author", author) \o Member("datePublished", datePublished)
       \o Member("image", image)) :
     type \in {Str("Article"), Arr(<<Str("BlogPosting"), Str("Thing")>>)},
     headline \in {Absent, Null, Str("Cats")},
     author \in {Absent, Str("Ann")},
     datePublished \in {Absent, Str("2024-01-15"), Str("yesterday"), Num(2024)},
     image \in {Absent, Str("https://example.com/a.png"), Str("not a url")}}

OfferNodes ==
  {Obj(Member("@type", Str("Offer")) \o Member("price", price)
       \o Member("priceCurrency", priceCurrency) \o Member("url", url)) :
     price \in {Absent, Null, True, Num(5), Str("12.50"), Str("abc")},
     priceCurrency \in {Absent, Str("USD")},
     url \in {Absent, Str("/offers/1")}}

RatingNodes ==
  {Obj(Member("@type", Str("AggregateRating")) \o Member("ratingValue", ratingValue)
       \o Member("reviewCount", reviewCount)) :
     ratingValue \in {Absent, Num(4), Num(6), Str("4.5"), Str("5.5"), Str("-1"),
                      Str("abc")},
     reviewCount \in {Absent, Num(3)}}

ListNodes ==
  {Obj(Member("@type", Str(type)) \o Member(property, value)) :
     type \in {"BreadcrumbList", "FAQPage"},
     property \in {"itemListElement", "mainEntity"},
     value \in {Absent, Arr(<<>>)}}

UnregisteredNodes ==
  {Obj(Member("@type", type) \o Member("@id", id) \o Member("headline", headline)) :
     type \in {Absent, Null, Num(5), Arr(<<>>), Arr(<<Str("Thing")>>), Arr(<<Num(5)>>),
               Str("Thing"), Str("Unknown"), Str("constructor"), Str("toString")},
     id \in {Absent, Num(1), Str("#thing")},
     headline \in {Absent, Str("Cats")}}

SchemaNodes ==
  ArticleNodes \cup OfferNodes \cup RatingNodes \cup ListNodes \cup UnregisteredNodes

Ref(id) == Obj(<< <<"@id", Str(id)>> >>)

GraphItems ==
  {Obj(<< <<"@id", Str("a")>>, <<"@type", Str("Article")>>, <<"x", Ref("b")>> >>),
   Obj(<< <<"@id", Str("a")>>, <<"x", Ref("b")>> >>),
   Obj(<< <<"@id", Str("b")>>, <<"y", Ref("a")>> >>),
   Obj(<< <<"@id", Str("b")>>, <<"@type", Arr(<<Str("Person")>>)>>,
          <<"y", Arr(<<Ref("c"), Obj(<< <<"@id", Num(5)>>, <<"z", Ref("c")>> >>),
                       Str("c")>>)>> >>),
   Obj(<< <<"@id", Str("c")>>,
          <<"x", Obj(<< <<"@id", Str("c")>>, <<"w", Ref("a")>> >>)>>,
          <<"u", Ref("q")>> >>),
   Obj(<< <<"@id", Str("c")>> >>),
   Obj(<< <<"@type", Str("Thing")>>, <<"x", Ref("a")>> >>),
   Obj(<< <<"@id", Str("")>>, <<"x", Ref("b")>> >>),
   Obj(<< <<"@id", Str("a")>>, <<"x", Arr(<<Ref(""), Ref("c")>>)>> >>),
   Obj(<< <<"@id", Str("_:node0")>>, <<"x", Ref("a")>> >>)}

GraphDocuments ==
  {Obj(<< <<"@context", Str("https://schema.org")>>, <<"@graph", Arr(items)>> >>) :
     items \in SeqsUpTo(GraphItems, MaxGraphNodes)}
  \cup {Obj(<< <<"@context", Str("https://schema.org")>>, <<"@graph", Ref("a")>> >>)}

JsonLdDocuments == SchemaNodes \cup GraphDocuments

\* The longest list of analyses that is scored
MaxSchemas == 7

\* The analysis of a node, reduced to what the score reads
Summary(type, validationScore, completenessScore) ==
  SchemaAnalysis(type, Undefined, validationScore = 100, validationScore,
                 completenessScore, <<>>, <<>>, <<>>, <<>>, <<>>, <<>>)

\* A WebPage with two of its four recommended properties, an Organization
\* with one of five, and analyses of other types and scores
SchemaSummaries ==
  <<Summary("WebPage", 100, 50), Summary("Organization", 100, 20),
    Summary("BreadcrumbList", 100, 100), Summary("Article", 33, 60),
    Summary("LocalBusiness", 50, 17), Summary("WebSite", 0, 0),
    Summary("Thing", 50, 0), Summary("Product", 100, 100)>>

\* Lists of copies of one analysis followed by copies of another, and lists
\* of different analyses
SchemaLists ==
  {[i \in 1..(k + m) |-> IF i <= k THEN SchemaSummaries[a] ELSE SchemaSummaries[b]] :
     <<a, b, k, m>> \in {t \in (1..Len(SchemaSummaries)) \X (1..Len(SchemaSummaries))
                                \X (0..MaxSchemas) \X (0..MaxSchemas) :
                          t[3] + t[4] <= MaxSchemas}}
  \cup
  {SelectSeqRec(SchemaSummaries, idx) :
     idx \in {t \in SUBSET (1..Len(SchemaSummaries)) : Cardinality(t) <= MaxSchemas}}

(***************************************************************************)
(* The callers: one analysis at a time, from idle and back                 *)
(***************************************************************************)

NoOptions == [targetKeyword |-> "", targetAudience |-> None]

NoAnalysis ==
  [readability |-> [fleschKincaid |-> 0, avgSentenceLength |-> 0,
                    avgWordLength |-> 0, complexWordPercentage |-> 0,
                    passiveVoiceCount |-> 0],
   seo |-> [wordCount |-> 0, keywordCount |-> 0, keywordDensity |-> 0,
            keywordInFirstParagraph |-> FALSE, keywordInHeadings |-> 0,
            hasMetaDescription |-> FALSE],
   structure |-> [headingCount |-> 0, h1Count |-> 0, hasProperHierarchy |-> TRUE,
                  skippedLevels |-> <<>>, avgParagraphLength |-> 0,
                  listCount |-> 0, codeBlockCount |-> 0],
   lines |-> <<>>]

NoSummary ==
  [seo |-> [score |-> 0, issues |-> 0],
   readability |-> [score |-> 0, issues |-> 0],
   structure |-> [score |-> 0, issues |-> 0]]

NoScores ==
  [raw |-> [fleschReadingEase |-> Zero, fleschKincaidGrade |-> Zero,
            gunningFog |-> Zero, smogIndex |-> Zero,
            automatedReadabilityIndex |-> Zero],
   rounded |-> [fleschReadingEase |-> 0, fleschKincaidGrade |-> 0,
                gunningFog |-> 0, smogIndex |-> 0,
                automatedReadabilityIndex |-> 0, interpretation |-> ""]]

NoSeoInput ==
  [title |-> "", description |-> "", wordCount |-> 0, h1Count |-> 0,
   imageCount |-> 0, imagesWithAlt |-> 0, links |-> <<0, 0>>, targetKeyword |-> ""]

NoSeoScore ==
  [overall |-> 0, content |-> 0, technical |-> 0, onPage |-> 0,
   details |-> [titleScore |-> 0, descriptionScore |-> 0, headingsScore |-> 0,
                imagesScore |-> 0, linksScore |-> 0, contentLengthScore |-> 0,
                keywordScore |-> 0]]

NoSchemaAnalysis ==
  SchemaAnalysis("", Undefined, FALSE, 0, 0, <<>>, <<>>, <<>>, <<>>, <<>>, <<>>)

NoSchemaScore == SchemaValidationScore(0, 0, 0)

(***************************************************************************)
(* The shared WebDriver (src/browser/driver.ts) and the resource cache      *)
(* (src/lib/cache/resource-cache.ts): module state                          *)
(***************************************************************************)

\* Concurrent retrievePage calls
MaxRequests == 3

Requests == 1..MaxRequests

\* Sessions of created drivers that the browser may lose
MaxInvalidSessions == 1

\* driverInstance = null, driverPromise = null
NoDriver == 0

NoPromise == 0

\* A retrievePage call that has not been made yet: where it stands, the
\* build promise or the driver whose session it awaits, whether its
\* getDriver() resolved, and how often its finally block ran releaseDriver()
NewRequest == [at |-> "new", awaiting |-> 0, held |-> FALSE, releases |-> 0]

\* Concurrent retrieveResource calls
MaxResourceCalls == 3

ResourceCalls == 1..MaxResourceCalls

\* The Content-Type header of a response, or "" when it has none
ContentTypes == {"", "text/css"}

NoResource == [url |-> "", mime |-> ""]

\* A retrieveResource call that has not been made yet: where it stands, its
\* arguments, the Resource it returned, and whether clearResourceCache has
\* not run since it was made
NewResourceCall == [at |-> "new", hostname |-> "", url |-> "", resource |-> NoResource, sinceClear |-> FALSE]

Hostnames == {"https://a.test"}

ResourceUrls == {"/a.css", "https://a.test/a.css", "https://cdn.test/b.js"}

\* line 11: const fullUrl = url.startsWith('/') ? hostname + url : url
fullUrl(hostname, url) ==
  IF Len(url) >= 1 /\ SubSeq(url, 1, 1) = "/" THEN hostname \o url ELSE url

FullUrls == {fullUrl(h, u) : h \in Hostnames, u \in ResourceUrls}

contentVars == <<content, options, analysis, instructions, summary>>
textVars == <<text, scores, syllableWord, syllableCount>>
seoVars == <<seoInput, seoScore>>
jsonldVars == <<jsonld, schemaAnalysis, graphAnalysis, scoredSchemas, schemaScore>>
driverVars == <<driverInstance, driverPromise, isDriverBusy, busyQueue, builds, deadSessions, requests, microtasks>>
cacheVars == <<RESOURCES_CACHE, resourceCalls>>
analysisVars == <<pc, contentVars, textVars, seoVars, jsonldVars>>

Init ==
  /\ pc = "idle"
  /\ content = ""
  /\ options = NoOptions
  /\ analysis = NoAnalysis
  /\ instructions = <<>>
  /\ summary = NoSummary
  /\ text = ""
  /\ scores = NoScores
  /\ syllableWord = ""
  /\ syllableCount = 0
  /\ seoInput = NoSeoInput
  /\ seoScore = NoSeoScore
  /\ jsonld = Undefined
  /\ schemaAnalysis = NoSchemaAnalysis
  /\ graphAnalysis = NullGraphAnalysis
  /\ scoredSchemas = <<>>
  /\ schemaScore = NoSchemaScore
  /\ driverInstance = NoDriver
  /\ driverPromise = NoPromise
  /\ isDriverBusy = FALSE
  /\ busyQueue = <<>>
  /\ builds = <<>>
  /\ deadSessions = {}
  /\ requests = [r \in Requests |-> NewRequest]
  /\ microtasks = <<>>
  /\ RESOURCES_CACHE = <<>>
  /\ resourceCalls = [c \in ResourceCalls |-> NewResourceCall]

\* improve-content: analysis = analyzeMarkdownContent(content, options)
AnalyzeMarkdownContent ==
  /\ pc = "idle"
  /\ \E doc \in Documents, opts \in Options :
       /\ opts.targetAudience \in {None, "beginner"}
       /\ content' = doc
       /\ options' = opts
       /\ analysis' = analyzeMarkdownContent(doc, opts)
  /\ pc' = "analyzed"
  /\ UNCHANGED <<instructions, summary, textVars, seoVars, jsonldVars,
                 driverVars, cacheVars>>

\* A caller of the library that holds an analysis record of its own
SupplyAnalysis ==
  /\ pc = "idle"
  /\ \E an \in SuppliedAnalyses, opts \in Options :
       /\ analysis' = an
       /\ options' = opts
  /\ pc' = "analyzed"
  /\ UNCHANGED <<content, instructions, summary, textVars, seoVars, jsonldVars,
                 driverVars, cacheVars>>

\* instructions = generateContentInstructions(analysis, options)
GenerateContentInstructions ==
  /\ pc = "analyzed"
  /\ instructions' = generateContentInstructions(analysis, options)
  /\ pc' = "generated"
  /\ UNCHANGED <<content, options, analysis, summary, textVars, seoVars, jsonldVars,
                 driverVars, cacheVars>>

\* A calculateCategoryScores that takes the instructions off the list it
\* was given while it counts them
CalculateCategoryScoresConsuming ==
  /\ pc = "generated"
  /\ summary' = calculateCategoryScores(analysis, instructions)
  /\ instructions' = <<>>
  /\ pc' = "scored"
  /\ UNCHANGED <<content, options, analysis, textVars, seoVars, jsonldVars,
                 driverVars, cacheVars>>

\* summary = calculateCategoryScores(analysis, instructions)
CalculateCategoryScores ==
  /\ pc = "generated"
  /\ summary' = calculateCategoryScores(analysis, instructions)
  /\ pc' = "scored"
  /\ UNCHANGED <<content, options, analysis, instructions, textVars, seoVars, jsonldVars,
                 driverVars, cacheVars>>

\* check-readability: the five formulas on one text
CalculateReadabilityScores ==
  /\ pc = "idle"
  /\ \E t \in Texts :
       /\ text' = t
       /\ scores' = [raw |-> RawScores(Chars(t)),
                     rounded |-> calculateReadabilityScores(Chars(t))]
  /\ pc' = "read"
  /\ UNCHANGED <<contentVars, seoVars, jsonldVars, syllableWord, syllableCount,
                 driverVars, cacheVars>>

\* syllableCount = countSyllables(syllableWord), as countTotalSyllables calls it for
\* each word of a text
CountSyllables ==
  /\ pc = "idle"
  /\ \E w \in Words :
       /\ syllableWord' = w
       /\ syllableCount' = countSyllables(Chars(w))
  /\ pc' = "syllables"
  /\ UNCHANGED <<contentVars, seoVars, jsonldVars, text, scores,
                 driverVars, cacheVars>>

\* seoScore = calculateSEOScore(title, description, wordCount, h1Count,
\* imageCount, imagesWithAlt, internalLinks, externalLinks, targetKeyword)
CalculateSEOScore ==
  /\ pc = "idle"
  /\ \E in \in SeoInputs :
       /\ seoInput' = in
       /\ seoScore' = calculateSEOScore(Chars(in.title), Chars(in.description),
                         in.wordCount, in.h1Count, in.imageCount, in.imagesWithAlt,
                         in.links[1], in.links[2], Chars(in.targetKeyword))
  /\ pc' = "seo"
  /\ UNCHANGED <<contentVars, textVars, jsonldVars,
                 driverVars, cacheVars>>

\* A JSON-LD script of the page is parsed
ParseJsonLd ==
  /\ pc = "idle"
  /\ \E doc \in JsonLdDocuments : jsonld' = doc
  /\ pc' = "parsed"
  /\ UNCHANGED <<contentVars, textVars, seoVars, schemaAnalysis, graphAnalysis,
                 scoredSchemas, schemaScore,
                 driverVars, cacheVars>>

\* schemaAnalysis = analyzeSchema(data)
AnalyzeSchema ==
  /\ pc = "parsed"
  /\ schemaAnalysis' = analyzeSchema(jsonld)
  /\ pc' = "schema"
  /\ UNCHANGED <<contentVars, textVars, seoVars, jsonld, graphAnalysis,
                 scoredSchemas, schemaScore,
                 driverVars, cacheVars>>

\* graphAnalysis = analyzeGraph(data)
AnalyzeGraph ==
  /\ pc = "parsed"
  /\ graphAnalysis' = analyzeGraph(jsonld)
  /\ pc' = "graph"
  /\ UNCHANGED <<contentVars, textVars, seoVars, jsonld, schemaAnalysis,
                 scoredSchemas, schemaScore,
                 driverVars, cacheVars>>

\* schemaScore = calculateSchemaScore(schemas, graphAnalysis)
CalculateSchemaScore ==
  /\ pc = "idle"
  /\ \E schemas \in SchemaLists :
       /\ scoredSchemas' = schemas
       /\ schemaScore' = calculateSchemaScore(schemas, graphAnalysis)
  /\ pc' = "schemaScore"
  /\ UNCHANGED <<contentVars, textVars, seoVars, jsonld, schemaAnalysis, graphAnalysis,
                 driverVars, cacheVars>>

\* The call returns; its values are dropped
Return ==
  /\ pc \in {"scored", "read", "seo", "schema", "graph", "schemaScore",
            "syllables"}
  /\ pc' = "idle"
  /\ content' = ""
  /\ options' = NoOptions
  /\ analysis' = NoAnalysis
  /\ instructions' = <<>>
  /\ summary' = NoSummary
  /\ text' = ""
  /\ scores' = NoScores
  /\ syllableWord' = ""
  /\ syllableCount' = 0
  /\ seoInput' = NoSeoInput
  /\ seoScore' = NoSeoScore
  /\ jsonld' = Undefined
  /\ schemaAnalysis' = NoSchemaAnalysis
  /\ graphAnalysis' = NullGraphAnalysis
  /\ scoredSchemas' = <<>>
  /\ schemaScore' = NoSchemaScore
  /\ UNCHANGED <<driverVars, cacheVars>>

NextContent ==
  \/ AnalyzeMarkdownContent
  \/ SupplyAnalysis
  \/ GenerateContentInstructions
  \/ CalculateCategoryScores
  \/ Return

SpecContent == Init /\ [][NextContent]_vars

NextText ==
  \/ CalculateReadabilityScores
  \/ CountSyllables
  \/ Return

SpecText == Init /\ [][NextText]_vars

NextSeo ==
  \/ CalculateSEOScore
  \/ Return

SpecSeo == Init /\ [][NextSeo]_vars

NextJsonLd ==
  \/ ParseJsonLd
  \/ AnalyzeSchema
  \/ AnalyzeGraph
  \/ CalculateSchemaScore
  \/ Return

SpecJsonLd == Init /\ [][NextJsonLd]_vars

Next ==
  \/ NextContent
  \/ NextJsonLd

Spec == Init /\ [][Next]_vars

(***************************************************************************)
(* src/browser/driver.ts: getDriver, waitForDriver, releaseDriver, and      *)
(* retrievePage, which calls them.  A step is the code that runs between    *)
(* two awaits.                                                              *)
(***************************************************************************)

\* releaseDriver(), lines 20-24: reqs is the requests after the caller's own
\* step, after the continuations the caller queues once releaseDriver has
\* returned.  The waiter whose resolver busyQueue.shift() returned continues
\* in a later microtask.
ReleaseDriver(reqs, after) ==
  /\ isDriverBusy' = FALSE
  /\ IF busyQueue = <<>>
       THEN /\ busyQueue' = <<>>
            /\ requests' = reqs
            /\ microtasks' = microtasks \o after
       ELSE /\ busyQueue' = Tail(busyQueue)
            /\ requests' = [reqs EXCEPT ![Head(busyQueue)].at = "resuming"]
            /\ microtasks' = Append(microtasks, Head(busyQueue)) \o after

\* The build promise k has been settled and its creator has continued
\* (reactions of one promise run in the order they were registered)
CreatorContinued(k) ==
  \A q \in Requests : ~(requests[q].at = "creating" /\ requests[q].awaiting = k)

\* No continuation is pending: the microtask queue is drained before the
\* event loop delivers the next I/O completion
Drained ==
  /\ microtasks = <<>>
  /\ \A q \in Requests :
       requests[q].at \in {"creating", "joining"} => builds[requests[q].awaiting] = "pending"

\* retrievePage line 237 calls getDriver(); getDriver line 28 calls
\* waitForDriver() (lines 15-18) and awaits its promise
GetDriver(r) ==
  /\ requests[r].at = "new"
  /\ IF ~isDriverBusy
       THEN /\ requests' = [requests EXCEPT ![r].at = "resuming"]
            /\ microtasks' = Append(microtasks, r)
            /\ UNCHANGED busyQueue
       ELSE /\ requests' = [requests EXCEPT ![r].at = "waiting"]
            /\ busyQueue' = Append(busyQueue, r)
            /\ UNCHANGED microtasks
  /\ UNCHANGED <<driverInstance, driverPromise, isDriverBusy, builds, deadSessions>>
  /\ UNCHANGED <<analysisVars, cacheVars>>

\* getDriver lines 29-46: the continuation of await waitForDriver()
ResumeGetDriver(r) ==
  /\ microtasks # <<>>
  /\ Head(microtasks) = r
  /\ microtasks' = Tail(microtasks)
  /\ isDriverBusy' = TRUE
  /\ CASE driverInstance = NoDriver /\ driverPromise = NoPromise ->
            /\ builds' = Append(builds, "pending")
            /\ driverPromise' = Len(builds) + 1
            /\ requests' = [requests EXCEPT ![r].at = "creating",
                                            ![r].awaiting = Len(builds) + 1]
       [] driverPromise # NoPromise ->
            /\ requests' = [requests EXCEPT ![r].at = "joining",
                                            ![r].awaiting = driverPromise]
            /\ UNCHANGED <<builds, driverPromise>>
       [] OTHER ->
            /\ requests' = [requests EXCEPT ![r].at = "verifying",
                                            ![r].awaiting = driverInstance]
            /\ UNCHANGED <<builds, driverPromise>>
  /\ UNCHANGED <<driverInstance, busyQueue, deadSessions>>
  /\ UNCHANGED <<analysisVars, cacheVars>>

\* lines 33-36: the promise of Builder.build() is fulfilled with a driver
BuildResolves ==
  /\ Drained
  /\ \E k \in 1..Len(builds) :
       /\ builds[k] = "pending"
       /\ builds' = [builds EXCEPT ![k] = "resolved"]
  /\ UNCHANGED <<driverInstance, driverPromise, isDriverBusy, busyQueue,
                 deadSessions, requests, microtasks>>
  /\ UNCHANGED <<analysisVars, cacheVars>>

\* lines 33-36: the promise of Builder.build() is rejected
BuildRejects ==
  /\ Drained
  /\ \E k \in 1..Len(builds) :
       /\ builds[k] = "pending"
       /\ builds' = [builds EXCEPT ![k] = "rejected"]
  /\ UNCHANGED <<driverInstance, driverPromise, isDriverBusy, busyQueue,
                 deadSessions, requests, microtasks>>
  /\ UNCHANGED <<analysisVars, cacheVars>>

\* lines 37-39 and 55: driverInstance = await driverPromise; driverPromise = null
DriverCreated(r) ==
  /\ requests[r].at = "creating"
  /\ builds[requests[r].awaiting] = "resolved"
  /\ driverInstance' = requests[r].awaiting
  /\ driverPromise' = NoPromise
  /\ requests' = [requests EXCEPT ![r].at = "desktop", ![r].held = TRUE]
  /\ UNCHANGED <<isDriverBusy, busyQueue, builds, deadSessions, microtasks>>
  /\ UNCHANGED <<analysisVars, cacheVars>>

\* lines 42 and 55: driverInstance = await driverPromise
DriverJoined(r) ==
  /\ requests[r].at = "joining"
  /\ builds[requests[r].awaiting] = "resolved"
  /\ CreatorContinued(requests[r].awaiting)
  /\ driverInstance' = requests[r].awaiting
  /\ requests' = [requests EXCEPT ![r].at = "desktop", ![r].held = TRUE]
  /\ UNCHANGED <<driverPromise, isDriverBusy, busyQueue, builds, deadSessions,
                 microtasks>>
  /\ UNCHANGED <<analysisVars, cacheVars>>

\* lines 37 and 42: the awaited promise is rejected, the await throws,
\* getDriver() rejects and with it retrievePage, whose try block has not
\* been entered
GetDriverRejects(r) ==
  /\ requests[r].at \in {"creating", "joining"}
  /\ builds[requests[r].awaiting] = "rejected"
  /\ requests[r].at = "joining" => CreatorContinued(requests[r].awaiting)
  /\ requests' = [requests EXCEPT ![r].at = "rejected"]
  /\ UNCHANGED <<driverInstance, driverPromise, isDriverBusy, busyQueue, builds,
                 deadSessions, microtasks>>
  /\ UNCHANGED <<analysisVars, cacheVars>>

\* The browser loses the session of a driver that was created
SessionDies ==
  /\ Drained
  /\ Cardinality(deadSessions) < MaxInvalidSessions
  /\ \E k \in 1..Len(builds) :
       /\ builds[k] = "resolved"
       /\ k \notin deadSessions
       /\ deadSessions' = deadSessions \cup {k}
  /\ UNCHANGED <<driverInstance, driverPromise, isDriverBusy, busyQueue, builds,
                 requests, microtasks>>
  /\ UNCHANGED <<analysisVars, cacheVars>>

\* lines 46-47 and 55: getSession() resolves
SessionValid(r) ==
  /\ Drained
  /\ requests[r].at = "verifying"
  /\ requests[r].awaiting \notin deadSessions
  /\ requests' = [requests EXCEPT ![r].at = "desktop", ![r].held = TRUE]
  /\ UNCHANGED <<driverInstance, driverPromise, isDriverBusy, busyQueue, builds,
                 deadSessions, microtasks>>
  /\ UNCHANGED <<analysisVars, cacheVars>>

\* lines 48-52: getSession() rejects; driverInstance = null; releaseDriver();
\* return getDriver(), which runs to its await waitForDriver() at once
SessionInvalid(r) ==
  /\ Drained
  /\ requests[r].at = "verifying"
  /\ requests[r].awaiting \in deadSessions
  /\ driverInstance' = NoDriver
  /\ ReleaseDriver([requests EXCEPT ![r].at = "resuming"], <<r>>)
  /\ UNCHANGED <<driverPromise, builds, deadSessions>>
  /\ UNCHANGED <<analysisVars, cacheVars>>

\* retrievePage lines 246-251: the desktop loadPage resolves
DesktopLoaded(r) ==
  /\ Drained
  /\ requests[r].at = "desktop"
  /\ requests' = [requests EXCEPT ![r].at = "mobile"]
  /\ UNCHANGED <<driverInstance, driverPromise, isDriverBusy, busyQueue, builds,
                 deadSessions, microtasks>>
  /\ UNCHANGED <<analysisVars, cacheVars>>

\* retrievePage lines 246 and 259-262: the desktop loadPage throws, the
\* finally block releases the driver, the call rejects with that error
DesktopThrows(r) ==
  /\ Drained
  /\ requests[r].at = "desktop"
  /\ ReleaseDriver([requests EXCEPT ![r].at = "desktopFailed",
                                    ![r].releases = @ + 1], <<>>)
  /\ UNCHANGED <<driverInstance, driverPromise, builds, deadSessions>>
  /\ UNCHANGED <<analysisVars, cacheVars>>

\* retrievePage lines 254-262: the mobile loadPage resolves, the finally
\* block releases the driver, the call returns its result
MobileLoaded(r) ==
  /\ Drained
  /\ requests[r].at = "mobile"
  /\ ReleaseDriver([requests EXCEPT ![r].at = "returned",
                                    ![r].releases = @ + 1], <<>>)
  /\ UNCHANGED <<driverInstance, driverPromise, builds, deadSessions>>
  /\ UNCHANGED <<analysisVars, cacheVars>>

\* retrievePage lines 254 and 259-262: the mobile loadPage throws
MobileThrows(r) ==
  /\ Drained
  /\ requests[r].at = "mobile"
  /\ ReleaseDriver([requests EXCEPT ![r].at = "mobileFailed",
                                    ![r].releases = @ + 1], <<>>)
  /\ UNCHANGED <<driverInstance, driverPromise, builds, deadSessions>>
  /\ UNCHANGED <<analysisVars, cacheVars>>

NextDriver ==
  \/ \E r \in Requests : GetDriver(r)
  \/ \E r \in Requests : ResumeGetDriver(r)
  \/ BuildResolves
  \/ BuildRejects
  \/ \E r \in Requests : DriverCreated(r)
  \/ \E r \in Requests : DriverJoined(r)
  \/ \E r \in Requests : GetDriverRejects(r)
  \/ SessionDies
  \/ \E r \in Requests : SessionValid(r)
  \/ \E r \in Requests : SessionInvalid(r)
  \/ \E r \in Requests : DesktopLoaded(r)
  \/ \E r \in Requests : DesktopThrows(r)
  \/ \E r \in Requests : MobileLoaded(r)
  \/ \E r \in Requests : MobileThrows(r)

SpecDriver == Init /\ [][NextDriver]_vars

\* What the event loop guarantees: a queued continuation runs, a pending
\* build settles, a session check and a page load complete.  That a call
\* is made at all is not guaranteed.
DriverFairness ==
  /\ \A r \in Requests : WF_vars(ResumeGetDriver(r))
  /\ WF_vars(BuildResolves \/ BuildRejects)
  /\ \A r \in Requests : WF_vars(DriverCreated(r) \/ DriverJoined(r) \/ GetDriverRejects(r))
  /\ \A r \in Requests : WF_vars(SessionValid(r) \/ SessionInvalid(r))
  /\ \A r \in Requests : WF_vars(DesktopLoaded(r) \/ DesktopThrows(r))
  /\ \A r \in Requests : WF_vars(MobileLoaded(r) \/ MobileThrows(r))

SpecDriverLive == SpecDriver /\ DriverFairness

(***************************************************************************)
(* src/lib/cache/resource-cache.ts                                          *)
(***************************************************************************)

\* lines 17-21: the Resource built from a response
ResourceOf(full, contentType) ==
  [url |-> full,
   mime |-> IF contentType = "" THEN "application/octet-stream" ELSE contentType]

\* lines 6-15: the cache lookup, and the fetch on a miss
RetrieveResource(c) ==
  /\ resourceCalls[c].at = "new"
  /\ \E h \in Hostnames, u \in ResourceUrls :
       resourceCalls' = [resourceCalls EXCEPT ![c] =
         IF fullUrl(h, u) \in DOMAIN RESOURCES_CACHE
           THEN [at |-> "cached", hostname |-> h, url |-> u,
                 resource |-> RESOURCES_CACHE[fullUrl(h, u)], sinceClear |-> TRUE]
           ELSE [at |-> "fetching", hostname |-> h, url |-> u,
                 resource |-> NoResource, sinceClear |-> TRUE]]
  /\ UNCHANGED RESOURCES_CACHE
  /\ UNCHANGED <<analysisVars, driverVars>>

\* lines 15-24: the fetch resolves; the Resource is stored and returned
FetchResolves(c) ==
  /\ resourceCalls[c].at = "fetching"
  /\ \E contentType \in ContentTypes :
       LET Store(full, resource) ==
             /\ RESOURCES_CACHE' =
                  [u \in DOMAIN RESOURCES_CACHE \cup {full} |->
                     IF u = full THEN resource ELSE RESOURCES_CACHE[u]]
             /\ resourceCalls' = [resourceCalls EXCEPT ![c].at = "fetched",
                                                       ![c].resource = resource]
       IN Store(fullUrl(resourceCalls[c].hostname, resourceCalls[c].url),
                ResourceOf(fullUrl(resourceCalls[c].hostname, resourceCalls[c].url),
                           contentType))
  /\ UNCHANGED <<analysisVars, driverVars>>

\* line 15: the fetch rejects and the call with it
FetchRejects(c) ==
  /\ resourceCalls[c].at = "fetching"
  /\ resourceCalls' = [resourceCalls EXCEPT ![c].at = "rejected"]
  /\ UNCHANGED RESOURCES_CACHE
  /\ UNCHANGED <<analysisVars, driverVars>>

\* lines 35-39
ClearResourceCache ==
  /\ RESOURCES_CACHE' = <<>>
  /\ resourceCalls' = [c \in ResourceCalls |-> [resourceCalls[c] EXCEPT !.sinceClear = FALSE]]
  /\ UNCHANGED <<analysisVars, driverVars>>

NextCache ==
  \/ \E c \in ResourceCalls : RetrieveResource(c)
  \/ \E c \in ResourceCalls : FetchResolves(c)
  \/ \E c \in ResourceCalls : FetchRejects(c)
  \/ ClearResourceCache

SpecCache == Init /\ [][NextCache]_vars

(***************************************************************************)
(* Properties of the content-instruction engine                            *)
(***************************************************************************)

Generated == pc \in {"generated", "scored"}

Rank(instr) == priorityOrder[instr.priority]

\* C1: the list generateContentInstructions returns is ordered by
\* non-decreasing priority rank critical < high < medium < low: no
\* instruction is preceded anywhere in the list by one of strictly lower
\* priority.
C1_OrderedByPriority ==
  Generated =>
    \A i, j \in 1..Len(instructions) :
      i < j => Rank(instructions[i]) <= Rank(instructions[j])

\* The rules pushed a low instruction before higher ones and the returned
\* list holds all four ranks.
C1_ReorderedAllRanks ==
  /\ Generated
  /\ instructions # GeneratedInstructions(analysis, options)
  /\ {instructions[i].priority : i \in 1..Len(instructions)}
       = {"critical", "high", "medium", "low"}

Criticals(instrs) == {i \in 1..Len(instrs) : instrs[i].priority = "critical"}

\* C2: for a document without an H1 heading the generated list holds
\* exactly one instruction of priority critical, and that one is automated
\* with action add, whatever the other metrics are.
C2_OneCriticalWithoutH1 ==
  (Generated /\ analysis.structure.h1Count = 0) =>
    /\ Cardinality(Criticals(instructions)) = 1
    /\ \A i \in Criticals(instructions) :
         instructions[i].automated /\ instructions[i].action = "add"

\* A parsed document without H1 that is also too short and lacks its
\* keyword and meta description
C2_ShortDocumentWithoutH1 ==
  /\ Generated
  /\ content # ""
  /\ analysis.structure.h1Count = 0
  /\ analysis.structure.headingCount > 0
  /\ analysis.seo.wordCount < 300
  /\ options.targetKeyword # ""
  /\ Len(instructions) >= 5

(***************************************************************************)
(* Properties of the readability formulas                                  *)
(***************************************************************************)

Formulas ==
  {"fleschReadingEase", "fleschKincaidGrade", "gunningFog", "smogIndex",
   "automatedReadabilityIndex"}

\* C3: for a text whose word count is 0 (empty, whitespace-only or
\* punctuation-only) each of the five readability formulas returns
\* exactly 0.
C3_ZeroWordsScoreZero ==
  (pc = "read" /\ Len(extractWords(Chars(text))) = 0) =>
    \A f \in Formulas : scores.raw[f].n = 0

(***************************************************************************)
(* Properties of the graph analysis                                        *)
(***************************************************************************)

GraphAnalyzed == pc = "graph" /\ graphAnalysis.hasGraph

\* The items of the @graph array of the parsed document
GraphOf(doc) == [i \in 1..Len(Get(doc, "@graph").kids) |-> Get(doc, "@graph").kids[i].val]

\* Node n has an edge to the node with this id
RefersTo(n, id) == id \in Range(n.references)

\* The entry of an unordered pair: the smaller id first
PairEntry(x, y) ==
  IF StringLess(y, x) THEN y \o " <-> " \o x ELSE x \o " <-> " \o y

MutualPairs(nodes) ==
  {<<nodes[q[1]].id, nodes[q[2]].id>> : q \in
     {r \in (1..Len(nodes)) \X (1..Len(nodes)) :
        /\ nodes[r[1]].id # nodes[r[2]].id
        /\ RefersTo(nodes[r[1]], nodes[r[2]].id)
        /\ RefersTo(nodes[r[2]], nodes[r[1]].id)}}

MutualExample ==
  <<Obj(<< <<"@id", Str("a")>>, <<"x", Ref("b")>> >>),
    Obj(<< <<"@id", Str("b")>>, <<"y", Ref("a")>> >>)>>

\* C4: circularReferences holds exactly one entry for every unordered pair
\* of distinct nodes that reference each other, the two ids sorted
\* lexicographically and joined with " <-> ", and nothing else; for the
\* graph of a -> b and b -> a it is ["a <-> b"] with no root and no orphan.
C4_CircularExactlyMutualPairs ==
  GraphAnalyzed =>
    /\ Range(graphAnalysis.circularReferences)
         = {PairEntry(q[1], q[2]) : q \in MutualPairs(graphAnalysis.nodes)}
    /\ \A i, j \in 1..Len(graphAnalysis.circularReferences) :
         i # j => graphAnalysis.circularReferences[i]
                    # graphAnalysis.circularReferences[j]
    /\ GraphOf(jsonld) = MutualExample =>
         /\ graphAnalysis.circularReferences = <<"a <-> b">>
         /\ graphAnalysis.orphanNodes = <<>>
         /\ graphAnalysis.rootNodes = <<>>

\* A graph of three nodes with one mutual pair, found from the larger id
\* first, and one edge that is not returned
C4_MutualPairAmongOtherEdges ==
  /\ GraphAnalyzed
  /\ graphAnalysis.nodeCount = 3
  /\ graphAnalysis.circularReferences = <<"a <-> c">>
  /\ graphAnalysis.nodes[1].id = "c"
  /\ \E i \in 1..3 : graphAnalysis.nodes[i].id = "b"
                      /\ graphAnalysis.nodes[i].references # <<>>

\* Some node of the result has an edge to the node with this id
Incoming(nodes, id) == \E i \in 1..Len(nodes) : RefersTo(nodes[i], id)

\* C5: rootNodes is exactly the ids of the nodes without incoming edge and
\* orphanNodes exactly the ids of the nodes without incoming and without
\* outgoing edge; every orphan is a root, and a single isolated node "c"
\* is in both lists.
C5_RootsAndOrphans ==
  GraphAnalyzed =>
    /\ Range(graphAnalysis.rootNodes)
         = {graphAnalysis.nodes[i].id : i \in
              {k \in 1..Len(graphAnalysis.nodes) :
                 ~Incoming(graphAnalysis.nodes, graphAnalysis.nodes[k].id)}}
    /\ Range(graphAnalysis.orphanNodes)
         = {graphAnalysis.nodes[i].id : i \in
              {k \in 1..Len(graphAnalysis.nodes) :
                 /\ ~Incoming(graphAnalysis.nodes, graphAnalysis.nodes[k].id)
                 /\ graphAnalysis.nodes[k].references = <<>>}}
    /\ Range(graphAnalysis.orphanNodes) \subseteq Range(graphAnalysis.rootNodes)
    /\ GraphOf(jsonld) = <<Obj(<< <<"@id", Str("c")>> >>)>> =>
         /\ graphAnalysis.rootNodes = <<"c">>
         /\ graphAnalysis.orphanNodes = <<"c">>

\* A graph with a root that has an outgoing edge, a node that is no root
\* and an isolated node
C5_RootOrphanAndInner ==
  /\ GraphAnalyzed
  /\ graphAnalysis.nodeCount = 3
  /\ Len(graphAnalysis.rootNodes) = 2
  /\ Len(graphAnalysis.orphanNodes) = 1
  /\ \E i \in 1..3 : graphAnalysis.nodes[i].referencedBy # <<>>

(***************************************************************************)
(* Properties of the schema analysis                                       *)
(***************************************************************************)

Registered == pc = "schema" /\ getSchemaType(jsonld) \in DOMAIN EXTENDED_SCHEMA_TYPES

Unregistered == pc = "schema" /\ getSchemaType(jsonld) \notin DOMAIN EXTENDED_SCHEMA_TYPES

RequiredOf(doc) == EXTENDED_SCHEMA_TYPES[getSchemaType(doc)].requiredProperties

\* The node has the property with a value other than null and undefined
Carries(doc, prop) ==
  \E i \in 1..Len(doc.kids) :
    doc.kids[i].key = prop /\ doc.kids[i].val.k \notin {"null", "undefined"}

IndexIn(props, prop) == CHOOSE i \in 1..Len(props) : props[i] = prop

\* C6: for a node of a registered type missingRequired is the required
\* properties of the registry the node lacks (missing, null or undefined)
\* in registry order, and validationScore is
\* round(100 * valid present required / required); the bare Article node
\* misses headline, author and datePublished and scores 0.
C6_MissingRequiredAndValidationScore ==
  Registered =>
    /\ ~schemaAnalysis.threw
    /\ Range(schemaAnalysis.missingRequired)
         = {prop \in Range(RequiredOf(jsonld)) : ~Carries(jsonld, prop)}
    /\ \A i, j \in 1..Len(schemaAnalysis.missingRequired) :
         i < j => IndexIn(RequiredOf(jsonld), schemaAnalysis.missingRequired[i])
                    < IndexIn(RequiredOf(jsonld), schemaAnalysis.missingRequired[j])
    /\ schemaAnalysis.validationScore
         = Round(100 * Cardinality({prop \in Range(RequiredOf(jsonld)) :
                         /\ Carries(jsonld, prop)
                         /\ validateProperty(prop, Get(jsonld, prop),
                                             getSchemaType(jsonld)).isValid}),
                 Len(RequiredOf(jsonld)))
    /\ jsonld = Obj(<< <<"@type", Str("Article")>> >>) =>
         /\ schemaAnalysis.missingRequired = <<"headline", "author", "datePublished">>
         /\ schemaAnalysis.validationScore = 0

\* An Article whose headline is null, whose author is valid and whose
\* date is present but invalid: one of three required properties counts
C6_NullHeadlineInvalidDate ==
  /\ Registered
  /\ In("headline", jsonld) /\ Get(jsonld, "headline") = Null
  /\ schemaAnalysis.missingRequired = <<"headline">>
  /\ Len(schemaAnalysis.requiredProperties) = 2
  /\ schemaAnalysis.validationScore = 33

\* The node has an @type that getSchemaType uses: a string, or a non-empty
\* array
TypePresent(doc) ==
  \/ Get(doc, "@type").k = "string"
  \/ Get(doc, "@type").k = "array" /\ Len(Get(doc, "@type").kids) > 0

\* C7: for a node whose type is not in the registry analyzeSchema returns
\* without throwing, with completenessScore 0, nothing missing, exactly
\* one suggestion, and isValid with validationScore 50 when the node has an
\* @type, not isValid with validationScore 0 when it has none.
C7_UnregisteredTypeReducedAnalysis ==
  Unregistered =>
    /\ ~schemaAnalysis.threw
    /\ schemaAnalysis.completenessScore = 0
    /\ schemaAnalysis.missingRequired = <<>>
    /\ schemaAnalysis.missingRecommended = <<>>
    /\ Len(schemaAnalysis.suggestions) = 1
    /\ IF TypePresent(jsonld)
       THEN schemaAnalysis.isValid /\ schemaAnalysis.validationScore = 50
       ELSE ~schemaAnalysis.isValid /\ schemaAnalysis.validationScore = 0

(***************************************************************************)
(* Properties of the SEO score                                             *)
(***************************************************************************)

SubScores ==
  {"titleScore", "descriptionScore", "headingsScore", "imagesScore", "linksScore",
   "contentLengthScore", "keywordScore"}

\* C8: for every input each of the seven sub-scores lies in 0..100, and so
\* do onPage, content, technical and overall.
C8_ScoresWithinRange ==
  pc = "seo" =>
    /\ \A sub \in SubScores : seoScore.details[sub] \in 0..100
    /\ seoScore.onPage \in 0..100
    /\ seoScore.content \in 0..100
    /\ seoScore.technical \in 0..100
    /\ seoScore.overall \in 0..100

(***************************************************************************)
(* Frame properties of the analyses                                        *)
(***************************************************************************)

\* C10: no analysis changes its input: generateContentInstructions leaves
\* the analysis record (its lines included) and the options as they were,
\* calculateCategoryScores leaves the instruction list as it was, and
\* analyzeSchema and analyzeGraph leave the JSON-LD tree as it was.
C10_InputsNotMutated ==
  [][/\ (pc = "analyzed" /\ pc' = "generated") =>
          (analysis' = analysis /\ options' = options)
     /\ (pc = "generated" /\ pc' = "scored") =>
          (instructions' = instructions /\ analysis' = analysis)
     /\ (pc = "parsed" /\ pc' \in {"schema", "graph"}) => jsonld' = jsonld]_vars

\* The category scores were taken from a list of several instructions,
\* which is still held, and counted issues in every category
C10_ScoredListKept ==
  /\ pc = "scored"
  /\ Len(instructions) >= 3
  /\ Len(analysis.lines) >= 2
  /\ summary.seo.issues > 0
  /\ summary.readability.issues + summary.structure.issues > 0

(***************************************************************************)
(* Properties of the graph analysis: node identity and edges               *)
(***************************************************************************)

NodeIdsOf(nodes) == {nodes[i].id : i \in 1..Len(nodes)}

NoRepeat(s) == \A i, j \in 1..Len(s) : i # j => s[i] # s[j]

\* C11: items of an @graph that carry the same @id collapse into one node:
\* nodes holds one entry per distinct id, nodeCount is the number of
\* distinct ids, and rootNodes and orphanNodes list no id twice.
C11_DuplicateIdsCollapse ==
  GraphAnalyzed =>
    /\ NoRepeat([i \in 1..Len(graphAnalysis.nodes) |-> graphAnalysis.nodes[i].id])
    /\ graphAnalysis.nodeCount = Cardinality(NodeIdsOf(graphAnalysis.nodes))
    /\ NoRepeat(graphAnalysis.rootNodes)
    /\ NoRepeat(graphAnalysis.orphanNodes)

(***************************************************************************)
(* Properties of the title score                                           *)
(***************************************************************************)

SeoScored == pc = "seo"

\* The title score of the same title when no keyword is given
TitleScoreWithoutKeyword == scoreTitleTag(Chars(seoInput.title), <<>>)

StartsWithKeyword ==
  /\ seoInput.title # ""
  /\ seoInput.targetKeyword # ""
  /\ startsWith(toLowerCase(Chars(seoInput.title)),
                toLowerCase(Chars(seoInput.targetKeyword)))

\* C12: an empty (or null) title scores 0, and a non-empty title that starts
\* with the target keyword, in either case of letters, scores strictly more
\* with the keyword than without one, the cap at 100 included.
C12_KeywordAtStartScoresHigher ==
  SeoScored =>
    /\ seoInput.title = "" => seoScore.details.titleScore = 0
    /\ StartsWithKeyword => seoScore.details.titleScore > TitleScoreWithoutKeyword

\* A title of 55 characters with an action word and the keyword at its start
\* reaches the cap of 100, and scores 75 without the keyword
C12_CappedTitleWithKeyword ==
  /\ SeoScored
  /\ StartsWithKeyword
  /\ Len(seoInput.title) = 55
  /\ seoInput.targetKeyword = "best"
  /\ seoScore.details.titleScore = 100
  /\ TitleScoreWithoutKeyword = 75

(***************************************************************************)
(* Properties of the property validators                                   *)
(***************************************************************************)

\* The validation records of the analysis, required ones first
PropertyRecords == schemaAnalysis.requiredProperties \o schemaAnalysis.recommendedProperties

\* The value is a number, or a string that starts with a decimal number
NumericValue(value) ==
  \/ value.k = "number"
  \/ value.k = "string" /\ ~parseFloat(Chars(value.s)).nan

OfferWithPrice ==
  Registered /\ getSchemaType(jsonld) = "Offer" /\ Carries(jsonld, "price")

\* C13: the price of an Offer that has one is recorded as valid exactly when
\* it is a number or a numeric string; any other price, the string abc among
\* them, is recorded with isValid = FALSE and an issue, and its warning is
\* on the analysis; the analysis returns without throwing.
C13_PriceValidIffNumeric ==
  OfferWithPrice =>
    /\ ~schemaAnalysis.threw
    /\ \A i \in 1..Len(PropertyRecords) :
         PropertyRecords[i].property = "price" =>
           /\ PropertyRecords[i].isValid <=> NumericValue(Get(jsonld, "price"))
           /\ ~PropertyRecords[i].isValid =>
                /\ PropertyRecords[i].issue # ""
                /\ \E w \in 1..Len(schemaAnalysis.warnings) :
                     schemaAnalysis.warnings[w]
                       = "price: " \o PropertyRecords[i].issue

(***************************************************************************)
(* Properties of the schema score                                          *)
(***************************************************************************)

SchemasScored == pc = "schemaScore"

ValidationSum == SumSeq([i \in 1..Len(scoredSchemas) |-> scoredSchemas[i].validationScore])

CompletenessSum == SumSeq([i \in 1..Len(scoredSchemas) |-> scoredSchemas[i].completenessScore])

\* C14: an empty list of analyses scores zero in every part; a non-empty
\* list scores validation = round(40 * average validationScore / 100)
\* within 0..40, completeness = round(35 * average completenessScore / 100)
\* within 0..35, coverage = 8 (Organization or LocalBusiness) + 7
\* (BreadcrumbList) + 5 (WebPage or WebSite) + 5 (a content type), at most
\* 25, and overall = their sum, at most 100.
C14_SchemaScoreFormula ==
  SchemasScored =>
    IF Len(scoredSchemas) = 0
    THEN schemaScore = [validation |-> 0, completeness |-> 0, coverage |-> 0,
                        overall |-> 0]
    ELSE /\ schemaScore.validation
              = Round(40 * ValidationSum, 100 * Len(scoredSchemas))
         /\ schemaScore.validation \in 0..40
         /\ schemaScore.completeness
              = Round(35 * CompletenessSum, 100 * Len(scoredSchemas))
         /\ schemaScore.completeness \in 0..35
         /\ schemaScore.coverage
              = (IF \E i \in 1..Len(scoredSchemas) :
                      scoredSchemas[i].type \in {"Organization", "LocalBusiness"}
                 THEN 8 ELSE 0)
                + (IF \E i \in 1..Len(scoredSchemas) :
                        scoredSchemas[i].type = "BreadcrumbList"
                   THEN 7 ELSE 0)
                + (IF \E i \in 1..Len(scoredSchemas) :
                        scoredSchemas[i].type \in {"WebPage", "WebSite"}
                   THEN 5 ELSE 0)
                + (IF \E i \in 1..Len(scoredSchemas) :
                        scoredSchemas[i].type
                          \in {"Article", "BlogPosting", "NewsArticle", "Product", "Event"}
                   THEN 5 ELSE 0)
         /\ schemaScore.coverage <= 25
         /\ schemaScore.overall
              = schemaScore.validation + schemaScore.completeness + schemaScore.coverage
         /\ schemaScore.overall <= 100

(***************************************************************************)
(* Properties of the instruction list: stability and hierarchy             *)
(***************************************************************************)

\* The instructions of one priority, in the order of the list
OfPriority(instrs, p) ==
  SelectSeqRec(instrs, {i \in 1..Len(instrs) : instrs[i].priority = p})

\* C15: the final ordering is stable: the returned instructions of each
\* priority are, in the same order, the instructions of that priority as
\* the rules emitted them (SEO, then readability, then structure rules).
C15_EqualPriorityKeepsGenerationOrder ==
  Generated =>
    LET SameOrder(emitted) ==
          \A p \in DOMAIN priorityOrder :
            OfPriority(instructions, p) = OfPriority(emitted, p)
    IN SameOrder(GeneratedInstructions(analysis, options))

\* The sort moved instructions, and three distinct instructions of one
\* priority were emitted with an instruction of another priority among them
C15_ReorderedWithTies ==
  /\ Generated
  /\ instructions # GeneratedInstructions(analysis, options)
  /\ \E p \in DOMAIN priorityOrder :
       /\ Len(OfPriority(instructions, p)) >= 3
       /\ OfPriority(instructions, p)[1] # OfPriority(instructions, p)[2]
       /\ OfPriority(instructions, p)[2] # OfPriority(instructions, p)[3]

Headings == extractMarkdownHeadings(analysis.lines)

\* The headings, other than the first, that lie more than one level below
\* the heading before them
LevelJumps(hs) == {i \in 2..Len(hs) : hs[i].level > hs[i - 1].level + 1}

JumpEntries(hs) ==
  SelectSeqRec([i \in 1..Len(hs) |->
                  IF i = 1 THEN ""
                  ELSE "H" \o ToString(hs[i - 1].level) \o " -> H"
                         \o ToString(hs[i].level)],
               LevelJumps(hs))

\* The medium structure instructions that ask to replace a heading
HierarchyInstructions(instrs) ==
  SelectSeqRec(instrs, {i \in 1..Len(instrs) :
                          /\ instrs[i].priority = "medium"
                          /\ instrs[i].category = "structure"
                          /\ instrs[i].action = "replace"})

\* C16: skippedLevels holds, in document order, exactly one entry Hp -> Hl
\* for each heading other than the first whose level l exceeds the level p
\* of the heading just before it by more than 1, and nothing else (never
\* the first heading, never a decrease); hasProperHierarchy holds iff the
\* list is empty; and the instructions hold exactly one medium structure
\* instruction for each entry.
C16_SkippedLevelsAreLevelJumps ==
  Generated =>
    /\ analysis.structure.skippedLevels = JumpEntries(Headings)
    /\ analysis.structure.hasProperHierarchy
         <=> analysis.structure.skippedLevels = <<>>
    /\ LET Asked(hierarchy) ==
             [k \in 1..Len(hierarchy) |-> hierarchy[k].value.current]
       IN Asked(HierarchyInstructions(instructions))
            = analysis.structure.skippedLevels

\* A document that opens with an H3, falls to an H1 and jumps to an H3:
\* only the jump is recorded, and one instruction asks to fix it
C16_DeepFirstHeadingThenJump ==
  /\ Generated
  /\ content # ""
  /\ [i \in 1..Len(Headings) |-> Headings[i].level] = <<3, 1, 3>>
  /\ analysis.structure.skippedLevels = <<"H1 -> H3">>
  /\ ~analysis.structure.hasProperHierarchy
  /\ Len(HierarchyInstructions(instructions)) = 1

(***************************************************************************)
(* Properties of the graph analysis: edge lists and longer cycles          *)
(***************************************************************************)

\* Node i of the result is made of item i of the @graph
HasStringId(item) == Get(item, "@id").k = "string"

\* C17: the edge lists of a graph analysis are consistent: for nodes A and
\* B made of items with string @ids, B is in A.references iff A is in
\* B.referencedBy; every id of a references list is the string @id of a
\* top-level item and is not the id of the node itself; no references or
\* referencedBy list holds an id twice.
C17_EdgeListsConsistent ==
  GraphAnalyzed =>
    LET Consistent(nodes, items) ==
          /\ \A i, j \in 1..Len(nodes) :
               (HasStringId(items[i]) /\ HasStringId(items[j])) =>
                 (nodes[j].id \in Range(nodes[i].references)
                    <=> nodes[i].id \in Range(nodes[j].referencedBy))
          /\ \A i \in 1..Len(nodes) :
               /\ \A r \in Range(nodes[i].references) :
                    /\ r # nodes[i].id
                    /\ \E j \in 1..Len(items) :
                         HasStringId(items[j]) /\ Get(items[j], "@id").s = r
               /\ NoRepeat(nodes[i].references)
               /\ NoRepeat(nodes[i].referencedBy)
    IN Consistent(graphAnalysis.nodes, GraphOf(jsonld))

\* Node c nests an object that repeats its own @id and refers to a; a
\* Person node and another node both refer to c, the Person node more than
\* once
C17_NestedOwnIdAndRepeatedReference ==
  /\ GraphAnalyzed
  /\ \E i, j \in 1..Len(graphAnalysis.nodes) :
       /\ graphAnalysis.nodes[i].id = "c"
       /\ graphAnalysis.nodes[i].references = <<"a">>
       /\ Len(graphAnalysis.nodes[i].referencedBy) = 2
       /\ Get(Get(GraphOf(jsonld)[i], "x"), "@id") = Str("c")
       /\ graphAnalysis.nodes[j].type = "Person"
       /\ graphAnalysis.nodes[j].references = <<"c">>

\* The nodes are three nodes of distinct ids whose only references form
\* a cycle first -> second -> third -> first, in some order of the nodes
ThreeCycle(nodes) ==
  /\ Len(nodes) = 3
  /\ \E i, j, k \in 1..3 :
       /\ {i, j, k} = 1..3
       /\ Cardinality({nodes[i].id, nodes[j].id, nodes[k].id}) = 3
       /\ nodes[i].references = <<nodes[j].id>>
       /\ nodes[j].references = <<nodes[k].id>>
       /\ nodes[k].references = <<nodes[i].id>>

\* C18: cycles longer than 2 are not reported: for a graph whose only
\* references form A -> B -> C -> A, with no two nodes referring to each
\* other, circularReferences is empty, and so are rootNodes and orphanNodes.
C18_ThreeCycleUndetected ==
  (GraphAnalyzed /\ ThreeCycle(graphAnalysis.nodes)) =>
    /\ graphAnalysis.circularReferences = <<>>
    /\ graphAnalysis.rootNodes = <<>>
    /\ graphAnalysis.orphanNodes = <<>>

\* The cycle a -> b -> c -> a, every node referenced by exactly one node
C18_CycleOfThreeNodes ==
  /\ GraphAnalyzed
  /\ ThreeCycle(graphAnalysis.nodes)
  /\ NodeIdsOf(graphAnalysis.nodes) = {"a", "b", "c"}
  /\ \A i \in 1..3 : Len(graphAnalysis.nodes[i].referencedBy) = 1
  /\ MutualPairs(graphAnalysis.nodes) = {}

(***************************************************************************)
(* Properties of the schema analysis: validity and malformed values        *)
(***************************************************************************)

\* C19: a node of a registered type is valid exactly when it misses no
\* required property and has no warning, that is when no required or
\* recommended property it carries failed its validator; a valid node has
\* validationScore 100.
C19_ValidIffNothingMissingNoWarning ==
  Registered =>
    /\ schemaAnalysis.isValid
         <=> (schemaAnalysis.missingRequired = <<>> /\ schemaAnalysis.warnings = <<>>)
    /\ schemaAnalysis.warnings = <<>>
         <=> \A i \in 1..Len(PropertyRecords) : PropertyRecords[i].isValid
    /\ schemaAnalysis.isValid => schemaAnalysis.validationScore = 100

\* validationScore 100 does not make a node valid: all required properties
\* are present and valid, and a recommended property is malformed
C19_FullScoreButInvalid ==
  /\ Registered
  /\ schemaAnalysis.validationScore = 100
  /\ schemaAnalysis.missingRequired = <<>>
  /\ \A i \in 1..Len(schemaAnalysis.requiredProperties) :
       schemaAnalysis.requiredProperties[i].isValid
  /\ \E i \in 1..Len(schemaAnalysis.recommendedProperties) :
       ~schemaAnalysis.recommendedProperties[i].isValid
  /\ ~schemaAnalysis.isValid

\* A value that passes the validator of the property
WellFormed(prop) ==
  IF prop \in urlProperties THEN Str("https://example.com/a.png")
  ELSE IF prop \in dateProperties THEN Str("2024-01-15")
  ELSE IF prop = "ratingValue" THEN Num(4)
  ELSE Num(5)

\* The node with the value of one of its properties replaced
WithValue(doc, prop, value) ==
  [doc EXCEPT !.kids = [i \in 1..Len(doc.kids) |->
                          IF doc.kids[i].key = prop
                          THEN [key |-> prop, val |-> value] ELSE doc.kids[i]]]

\* The records, or the warnings, that are not about the property
RecordsBut(records, prop) ==
  SelectSeqRec(records, {i \in 1..Len(records) : records[i].property # prop})

WarningsBut(warnings, removed) ==
  SelectSeqRec(warnings, {i \in 1..Len(warnings) : warnings[i] # removed})

\* The properties of the analysed node whose record is invalid
MalformedProperties ==
  {PropertyRecords[i].property :
     i \in {j \in 1..Len(PropertyRecords) : ~PropertyRecords[j].isValid}}

\* C20: a malformed property touches nothing but its own record and one
\* warning: the analysis returns normally, its warnings hold exactly one
\* warning "<prop>: <issue>" for the property, and the records of the
\* other properties, the other warnings, missingRequired and
\* missingRecommended are those of the analysis of the same node with a
\* well-formed value in place of the bad one.
C20_MalformedPropertyIsolated ==
  Registered =>
    /\ ~schemaAnalysis.threw
    /\ \A prop \in MalformedProperties :
         LET Isolated(bad, repaired) ==
               /\ Cardinality({i \in 1..Len(PropertyRecords) :
                                 PropertyRecords[i].property = prop}) = 1
               /\ Cardinality({i \in 1..Len(schemaAnalysis.warnings) :
                                 schemaAnalysis.warnings[i] = bad}) = 1
               /\ WarningsBut(schemaAnalysis.warnings, bad) = repaired.warnings
               /\ RecordsBut(schemaAnalysis.requiredProperties, prop)
                    = RecordsBut(repaired.requiredProperties, prop)
               /\ RecordsBut(schemaAnalysis.recommendedProperties, prop)
                    = RecordsBut(repaired.recommendedProperties, prop)
               /\ \A i \in 1..Len(repaired.requiredProperties \o repaired.recommendedProperties) :
                    (repaired.requiredProperties \o repaired.recommendedProperties)[i].property
                      = prop
                    => (repaired.requiredProperties \o repaired.recommendedProperties)[i].isValid
               /\ schemaAnalysis.missingRequired = repaired.missingRequired
               /\ schemaAnalysis.missingRecommended = repaired.missingRecommended
             IssueOf(record) == prop \o ": " \o record.issue
         IN Isolated(IssueOf(PropertyRecords[CHOOSE i \in 1..Len(PropertyRecords) :
                                               PropertyRecords[i].property = prop]),
                     analyzeSchema(WithValue(jsonld, prop, WellFormed(prop))))

\* An Offer whose price is malformed and whose currency, checked after the
\* price, is valid
C20_BadPriceGoodCurrency ==
  /\ Registered
  /\ MalformedProperties = {"price"}
  /\ schemaAnalysis.warnings = <<"price: Price should be a number or numeric string">>
  /\ Len(schemaAnalysis.requiredProperties) = 2
  /\ schemaAnalysis.requiredProperties[2].property = "priceCurrency"
  /\ schemaAnalysis.requiredProperties[2].isValid

(***************************************************************************)
(* Properties of single instruction rules                                  *)
(***************************************************************************)

\* The instructions about the number of words: they quote it as current
\* value
WordCountInstructions(instrs, wordCount) ==
  SelectSeqRec(instrs, {i \in 1..Len(instrs) :
                          instrs[i].value.current = ToString(wordCount) \o " words"})

\* C21: below 1000 words the list holds exactly one word-count instruction,
\* of category seo, action add and not automated, and from 1000 words on
\* none: below 300 words it is the add-content instruction of priority
\* high, from 300 to 999 words the consider-expanding instruction of
\* priority low; the two never come together.
C21_OneWordCountInstruction ==
  Generated =>
    LET Rule(found, wordCount) ==
          /\ Len(found) = (IF wordCount < 1000 THEN 1 ELSE 0)
          /\ \A i \in 1..Len(found) :
               /\ found[i].category = "seo"
               /\ found[i].action = "add"
               /\ ~found[i].automated
               /\ wordCount < 300 =>
                    /\ found[i].priority = "high"
                    /\ found[i].reason
                         = "Content is too short. Search engines prefer longer, comprehensive content."
               /\ wordCount >= 300 =>
                    /\ found[i].priority = "low"
                    /\ found[i].reason
                         = "Content length is acceptable but could be improved for competitive keywords."
    IN Rule(WordCountInstructions(instructions, analysis.seo.wordCount),
            analysis.seo.wordCount)

\* An analysis of 999 words gets the low instruction
C21_ExpandAt999Words ==
  /\ Generated
  /\ analysis.seo.wordCount = 999
  /\ Len(WordCountInstructions(instructions, 999)) = 1
  /\ WordCountInstructions(instructions, 999)[1].priority = "low"

\* The H1 headings of the analysed lines, in document order
H1Headings == SelectSeqRec(Headings, {i \in 1..Len(Headings) : Headings[i].level = 1})

\* The automated high structure instructions that replace a heading
Demotions(instrs) ==
  SelectSeqRec(instrs, {i \in 1..Len(instrs) :
                          /\ instrs[i].priority = "high"
                          /\ instrs[i].automated
                          /\ instrs[i].category = "structure"
                          /\ instrs[i].action = "replace"})

\* C22: for a document with n > 1 H1 headings the list holds exactly n - 1
\* automated high structure instructions of action replace, one for each
\* H1 after the first in document order, each with the line number of its
\* heading and the suggestion of the same text under ##; no instruction
\* is critical and none names the line of the first H1.
C22_ExtraH1sDemoted ==
  (Generated /\ Len(H1Headings) > 1) =>
    LET Demoted(found, h1s) ==
          /\ Len(found) = Len(h1s) - 1
          /\ \A k \in 1..Len(found) :
               /\ found[k].target.type = "heading"
               /\ found[k].target.lineNumber = h1s[k + 1].lineNumber
               /\ found[k].value.current = "# " \o h1s[k + 1].text
               /\ found[k].value.suggested = "## " \o h1s[k + 1].text
          /\ \A i \in 1..Len(instructions) :
               /\ instructions[i].priority # "critical"
               /\ instructions[i].target.type = "heading"
                    => instructions[i].target.lineNumber # h1s[1].lineNumber
    IN Demoted(Demotions(instructions), H1Headings)

\* A parsed document of three H1 headings: the second and the third are
\* demoted
C22_ThreeH1Headings ==
  /\ Generated
  /\ content # ""
  /\ Len(H1Headings) = 3
  /\ Len(Demotions(instructions)) = 2
  /\ Demotions(instructions)[1].target.lineNumber < Demotions(instructions)[2].target.lineNumber

\* The first line after the frontmatter block that is neither blank nor a
\* heading nor a fence, 0 when there is none
FirstContentParagraph(lines) ==
  LET Paragraph(cs) ==
        /\ trim(cs) # <<>>
        /\ ~startsWith(cs, <<"#">>)
        /\ ~startsWith(cs, Fence)
      First(ok) == IF ok = {} THEN 0 ELSE CHOOSE i \in ok : \A j \in ok : i <= j
      After(start) == First({i \in (start + 1)..Len(lines) : Paragraph(Chars(lines[i]))})
  IN After(extractFrontmatter(lines).contentStartLine)

\* The instructions that ask for the keyword in the introduction
IntroInstructions(instrs) ==
  SelectSeqRec(instrs, {i \in 1..Len(instrs) :
                          instrs[i].target.selector = "first paragraph"})

KeywordGiven == Generated /\ content # "" /\ options.targetKeyword # ""

\* C23: with a target keyword, the medium add-to-intro instruction is in
\* the list if and only if the keyword is absent from the first
\* non-heading paragraph of the document, which for a document with
\* frontmatter is the first non-blank, non-heading line after the
\* frontmatter block.
C23_IntroInstructionIffKeywordAbsent ==
  KeywordGiven =>
    LET Absent1(lines, first) ==
          first = 0 \/ ~includes(toLowerCase(Chars(lines[first])),
                                 toLowerCase(Chars(options.targetKeyword)))
        Asked(found) ==
          /\ Len(found) <= 1
          /\ \A i \in 1..Len(found) : found[i].priority = "medium"
          /\ Len(found) = 1
               <=> Absent1(analysis.lines, FirstContentParagraph(analysis.lines))
    IN Asked(IntroInstructions(instructions))

(***************************************************************************)
(* Properties of the syllable count                                        *)
(***************************************************************************)

SyllablesCounted == pc = "syllables"

\* The vowels of w that open a chunk: those at an even distance from the
\* start of their run of vowels
ChunkStarts(w) ==
  {i \in 1..Len(w) :
     /\ w[i] \in Vowels
     /\ \E j \in 1..i :
          /\ \A k \in j..i : w[k] \in Vowels
          /\ j = 1 \/ w[j - 1] \notin Vowels
          /\ (i - j) % 2 = 0}

\* The word without a trailing e, es or ed that follows a character that
\* is neither a vowel nor y
WithoutSilentSuffix(w) ==
  LET n == Len(w)
  IN IF n >= 3 /\ w[n - 1] = "e" /\ w[n] \in {"s", "d"} /\ w[n - 2] \notin Vowels
     THEN SubSeq(w, 1, n - 2)
     ELSE IF n >= 2 /\ w[n] = "e" /\ w[n - 1] \notin Vowels
     THEN SubSeq(w, 1, n - 1)
     ELSE w

WithoutLeadingY(w) == IF Len(w) >= 1 /\ w[1] = "y" THEN Tail(w) ELSE w

\* C24: the syllable count of a lowercase word is 1 for a word of at most
\* 3 characters; otherwise it is the number of chunks of 1-2 characters of
\* the runs of [aeiouy] that remain after a trailing e, es or ed that
\* follows a character that is neither a vowel nor y, and then a leading
\* y, are stripped, or 1 when there is none; it is at least 1.
C24_SyllableHeuristic ==
  SyllablesCounted =>
    LET Stated(w) ==
          IF Len(w) <= 3 THEN 1
          ELSE Max(1, Cardinality(ChunkStarts(WithoutLeadingY(WithoutSilentSuffix(w)))))
    IN /\ syllableCount = Stated(Chars(syllableWord))
       /\ syllableCount >= 1

(***************************************************************************)
(* Properties of the shared WebDriver                                      *)
(***************************************************************************)

\* The requests whose getDriver() has resolved and whose releaseDriver()
\* has not run yet
Holders == {r \in Requests : requests[r].at \in {"desktop", "mobile"}}

\* C25: the WebDriver is held by at most one request at a time, for every
\* interleaving of concurrent getDriver() calls: between one getDriver()
\* call resolving and the matching releaseDriver() call no other
\* getDriver() call resolves.
C25_AtMostOneHolder == Cardinality(Holders) <= 1

\* The retrievePage calls that have returned or rejected
Completed(r) == requests[r].at \in {"returned", "rejected", "desktopFailed", "mobileFailed"}

\* Every completed call whose getDriver() resolved has run releaseDriver()
\* in its finally block exactly once, and no holder has run it yet
ReleasedExactlyOnce ==
  \A r \in Requests :
    /\ (Completed(r) /\ requests[r].held) => requests[r].releases = 1
    /\ r \in Holders => requests[r].releases = 0
    /\ ~requests[r].held => requests[r].releases = 0

\* Every call that was made has completed
AllCompleted == \A r \in Requests : requests[r].at = "new" \/ Completed(r)

\* C26: retrievePage always releases the driver: every retrievePage call
\* whose getDriver() resolved calls releaseDriver() exactly once before it
\* returns or rejects, whether both loadPage calls succeed or the desktop or
\* the mobile one throws; so after any sequence of completed retrievePage
\* calls isDriverBusy is false and busyQueue is empty.
C26_DriverAlwaysReleased ==
  /\ ReleasedExactlyOnce
  /\ AllCompleted => (~isDriverBusy /\ busyQueue = <<>>)

\* C27: a failed driver creation does not wedge the lock: when
\* Builder.build() or the awaited driverPromise rejects inside getDriver(),
\* then afterwards isDriverBusy is false and driverPromise is null, so that
\* a later getDriver() call neither waits forever nor re-awaits the rejected
\* promise.
C27_FailedCreationLeavesLockFree ==
  [][(\E r \in Requests : GetDriverRejects(r))
       => (~isDriverBusy' /\ driverPromise' = NoPromise)]_vars

\* A step that takes resolvers off busyQueue takes exactly the oldest one,
\* and the call it belonged to is the next to continue
WakesOldestWaiter ==
  Len(busyQueue') < Len(busyQueue) =>
    /\ busyQueue' = Tail(busyQueue)
    /\ requests[Head(busyQueue)].at = "waiting"
    /\ requests'[Head(busyQueue)].at = "resuming"
    /\ Head(busyQueue) \in {microtasks'[i] : i \in 1..Len(microtasks')}
    /\ \A r \in Requests :
         requests[r].at = "waiting" /\ r # Head(busyQueue) => requests'[r].at = "waiting"

\* C28: no waiter starves: provided every holder eventually calls
\* releaseDriver() once, every getDriver() call that was queued in busyQueue
\* eventually resolves; each releaseDriver() wakes at most one waiter, in
\* FIFO order.
C28_NoWaiterStarves ==
  /\ \A r \in Requests : (requests[r].at = "waiting") ~> requests[r].held
  /\ [][WakesOldestWaiter]_vars

(***************************************************************************)
(* Properties of the resource cache                                        *)
(***************************************************************************)

ResolvedUrl(c) == fullUrl(resourceCalls[c].hostname, resourceCalls[c].url)

\* The calls made since the last clearResourceCache() that fetched the
\* resolved URL u and whose fetch did not reject
FetchesOf(u) ==
  {c \in ResourceCalls :
     /\ resourceCalls[c].sinceClear
     /\ resourceCalls[c].at \in {"fetching", "fetched"}
     /\ ResolvedUrl(c) = u}

\* C29: retrieveResource fetches each distinct resolved URL at most once
\* between clearResourceCache calls: once a call for a URL has completed,
\* every later call for it returns the cached Resource without fetching,
\* and several calls in flight for the same URL cause only one fetch.
C29_EachUrlFetchedOnce ==
  /\ \A u \in FullUrls : Cardinality(FetchesOf(u)) <= 1
  /\ \A c \in ResourceCalls :
       resourceCalls[c].at = "cached" => resourceCalls[c].resource.url = ResolvedUrl(c)

(***************************************************************************)
(* Properties of the graph analysis: items without a string @id            *)
(***************************************************************************)

\* The id given to item i of the @graph when it has no string @id
SyntheticId(i) == "_:node" \o ToString(i - 1)

\* C30: a @graph item without a string @id becomes the node '_:node<k>', k
\* its index in the node list; it always has empty references and
\* referencedBy, and is always listed in rootNodes and orphanNodes, even
\* when it contains @id references; such references never add an incoming
\* edge to any other node.
C30_ItemsWithoutIdAreIsolated ==
  GraphAnalyzed =>
    LET Isolated(nodes, items) ==
          \A i \in 1..Len(items) :
            ~HasStringId(items[i]) =>
              /\ nodes[i].id = SyntheticId(i)
              /\ nodes[i].references = <<>>
              /\ nodes[i].referencedBy = <<>>
              /\ SyntheticId(i) \in Range(graphAnalysis.rootNodes)
              /\ SyntheticId(i) \in Range(graphAnalysis.orphanNodes)
              /\ \A j \in 1..Len(nodes) : SyntheticId(i) \notin Range(nodes[j].referencedBy)
    IN Isolated(graphAnalysis.nodes, GraphOf(jsonld))

====
